---------------------------- MODULE Spec2Model ----------------------------
(***************************************************************************)
(* BPS database explorer (src/app.py): the search page's query builder,    *)
(* the scientific-name highlighter and the bulk downloads (ZIP archive     *)
(* and PDF report), as a state machine; and the script that builds the    *)
(* store's models and modelers tables (src/create_sqlite_db.py).           *)
(*                                                                         *)
(* Text values are TLA+ strings; Len, SubSeq and \o act on them as on      *)
(* sequences of characters.                                                *)
(***************************************************************************)
EXTENDS Integers, Sequences, FiniteSets, TLC

(***************************************************************************)
(* Characters and Python string methods                                    *)
(***************************************************************************)

\* SQL NULL / Python None / pandas NaN in a text column.
NULL == "<NULL>"

Ch(s, i) == SubSeq(s, i, i)

UpperChars == "ABCDEFGHIJKLMNOPQRSTUVWXYZ"
LowerChars == "abcdefghijklmnopqrstuvwxyz"
DigitChars == "0123456789"

\* characters in code-point order (binary collation, Python str comparison)
CharOrder == "\t\n %*,-./0123456789<>ABCDEFGHIJKLMNOPQRSTUVWXYZ_abcdefghijklmnopqrstuvwxyz"

CharSet(s) == {Ch(s, i) : i \in 1..Len(s)}

LowerMap == [c \in CharSet(UpperChars) |->
               Ch(LowerChars, CHOOSE i \in 1..26 : Ch(UpperChars, i) = c)]

\* str.lower() on one character (ASCII); also SQLite's LIKE case folding
LowerCh(c) == IF c \in DOMAIN LowerMap THEN LowerMap[c] ELSE c

RECURSIVE Lower(_)
Lower(s) == IF s = "" THEN "" ELSE LowerCh(Ch(s, 1)) \o Lower(Tail(s))

OrdMap == [c \in CharSet(CharOrder) |-> CHOOSE i \in 1..Len(CharOrder) : Ch(CharOrder, i) = c]

\* str.isspace / regex \s on one character
IsSpace(c) == c \in {" ", "\t", "\n"}

Digits == CharSet(DigitChars)

IsDigit(c) == c \in Digits

WordChars == CharSet(UpperChars) \cup CharSet(LowerChars) \cup CharSet(DigitChars) \cup {"_"}

\* regex \w on one character
IsWordChar(c) == c \in WordChars

RECURSIVE LStrip(_)
LStrip(s) == IF s # "" /\ IsSpace(Ch(s, 1)) THEN LStrip(Tail(s)) ELSE s

RECURSIVE RStrip(_)
RStrip(s) == IF s # "" /\ IsSpace(Ch(s, Len(s))) THEN RStrip(SubSeq(s, 1, Len(s) - 1)) ELSE s

\* str.strip()
Strip(s) == RStrip(LStrip(s))

\* sub in s
Contains(s, sub) == \E i \in 1..(Len(s) - Len(sub) + 1) : SubSeq(s, i, i + Len(sub) - 1) = sub

\* index of the first occurrence of sep in s, 0 when there is none
FindFirst(s, sep) ==
    IF Contains(s, sep)
    THEN CHOOSE i \in 1..(Len(s) - Len(sep) + 1) :
            /\ SubSeq(s, i, i + Len(sep) - 1) = sep
            /\ \A j \in 1..(i - 1) : SubSeq(s, j, j + Len(sep) - 1) # sep
    ELSE 0

\* s.split(sep)
RECURSIVE SplitOn(_, _)
SplitOn(s, sep) ==
    LET i == FindFirst(s, sep) IN
    IF i = 0 THEN <<s>>
    ELSE <<SubSeq(s, 1, i - 1)>> \o SplitOn(SubSeq(s, i + Len(sep), Len(s)), sep)

\* s.split(): split on runs of whitespace, no empty parts
RECURSIVE SplitWs(_)
SplitWs(s) ==
    LET t == LStrip(s) IN
    IF t = "" THEN <<>>
    ELSE LET n == IF \E k \in 1..Len(t) : IsSpace(Ch(t, k))
                  THEN (CHOOSE k \in 1..Len(t) : IsSpace(Ch(t, k)) /\ \A j \in 1..(k - 1) : ~IsSpace(Ch(t, j))) - 1
                  ELSE Len(t)
         IN <<SubSeq(t, 1, n)>> \o SplitWs(SubSeq(t, n + 1, Len(t)))

\* str.isdigit()
IsDigitStr(s) == s # "" /\ \A i \in 1..Len(s) : IsDigit(Ch(s, i))

DigitVal(c) == (CHOOSE i \in 1..10 : Ch(DigitChars, i) = c) - 1

\* int(s) for a string of digits
RECURSIVE ParseInt(_)
ParseInt(s) == IF s = "" THEN 0 ELSE 10 * ParseInt(SubSeq(s, 1, Len(s) - 1)) + DigitVal(Ch(s, Len(s)))

\* str(n) for a natural number
RECURSIVE IntToStr(_)
IntToStr(n) == IF n < 10 THEN Ch(DigitChars, n + 1) ELSE IntToStr(n \div 10) \o Ch(DigitChars, (n % 10) + 1)

\* a < b in code-point order
RECURSIVE StrLess(_, _)
StrLess(a, b) ==
    IF b = "" THEN FALSE
    ELSE IF a = "" THEN TRUE
    ELSE IF Ch(a, 1) = Ch(b, 1) THEN StrLess(Tail(a), Tail(b))
    ELSE OrdMap[Ch(a, 1)] < OrdMap[Ch(b, 1)]

\* SQLite's  value LIKE pattern : % any run, _ any one character, ASCII case-insensitive
RECURSIVE LikeFrom(_, _, _, _)
LikeFrom(s, p, i, j) ==
    IF j > Len(p) THEN i > Len(s)
    ELSE IF Ch(p, j) = "%" THEN \E k \in i..(Len(s) + 1) : LikeFrom(s, p, k, j + 1)
    ELSE IF i > Len(s) THEN FALSE
    ELSE /\ (Ch(p, j) = "_" \/ LowerCh(Ch(s, i)) = LowerCh(Ch(p, j)))
         /\ LikeFrom(s, p, i + 1, j + 1)

\* a NULL operand makes the comparison NULL, which WHERE treats as false
Like(s, p) == s # NULL /\ LikeFrom(s, p, 1, 1)


(***************************************************************************)
(* The store (bps_database.db) and the documents directory                 *)
(***************************************************************************)

\* bound: how many filler models a large store holds (more than the smallest limit)
NFill == 11

\* st.number_input("Results Limit", min_value=10, max_value=500, value=50, step=10)
LimitMin == 10
LimitMax == 500
LimitDefault == 50
LimitStep == 10

severity_order == <<"All Fires", "Low (Surface)", "Moderate (Mixed)", "Replacement">>

Severities == {severity_order[i] : i \in 1..Len(severity_order)}

\* one row of bps_models (text_df.csv)
ModelRow(id, veg, zones, doc, vdesc, geo, bio) ==
    [bps_model_id |-> id, vegetation_type |-> veg, map_zones |-> zones, document |-> doc,
     vegetation_description |-> vdesc, geographic_range |-> geo,
     biophysical_site_description |-> bio, scale_description |-> NULL,
     issues_or_problems |-> NULL, native_uncharacteristic_conditions |-> NULL]

RefRow(id, name, label, pct) ==
    [bps_model_id |-> id, bps_name |-> name, ref_label |-> label, ref_percent |-> pct]

FireRow(id, sev, years, pct) ==
    [bps_model_id |-> id, severity |-> sev, return_interval |-> years, percent_of_all_fires |-> pct]

CoreModels ==
    { ModelRow("1010_1", "Forest and Woodland", "1,7,12", "1010_1.docx", "Oak stands", "Cascades", NULL),
      ModelRow("1020_1", "Shrubland", "7,1", NULL, "Sagebrush", NULL, "dry soils"),
      ModelRow("1030_1", "Forest and Woodland\nMap Zone 7", "7", "1030_1.docx", NULL, "Oak belt", NULL),
      ModelRow("1040_1", "Shrubland", "1, 7, 12", "shared.docx", "Grass", "Plains", "loam"),
      ModelRow("1050_1", "Shrubland", "17", "shared.docx", "Oak scrub", NULL, NULL),
      ModelRow("1060_1", "Forest and Woodland", "71", NULL, "Pine", "Coast", NULL) }

CoreRefCon ==
    { RefRow("1010_1", "Oak Woodland", "A", 60), RefRow("1010_1", "Oak Woodland", "B", 40),
      RefRow("1020_1", "Sage Steppe", "A", 100),
      RefRow("1030_1", "Oak Savanna", "A", 50), RefRow("1030_1", "Oak Woodland", "B", 50),
      RefRow("1050_1", "Pine Forest", "A", 100),
      RefRow("1060_1", "Oak Savanna", "A", 100) }

CoreFire ==
    { FireRow("1010_1", "Replacement", 75, 40), FireRow("1010_1", "Low (Surface)", 30, 60),
      FireRow("1020_1", "Replacement", 120, 100),
      FireRow("1040_1", "Replacement", 50, 50), FireRow("1040_1", "Replacement", 120, 10),
      FireRow("1040_1", "Low (Surface)", 10, 40),
      FireRow("1050_1", "Replacement", 100, 100),
      FireRow("1060_1", "Low (Surface)", 8, 100) }

\* one row of bps_indicators and one of scls_descriptions
IndicatorRow(id, symbol, sci, common) ==
    [bps_model_id |-> id, symbol |-> symbol, scientific_name |-> sci, common_name |-> common]

SclsRow(id, label, class, description) ==
    [bps_model_id |-> id, ref_label |-> label, state_class_id |-> class, description |-> description]

CoreIndicators ==
    { IndicatorRow("1010_1", "QUGA4", "Quercus garryana", "Oregon white oak"),
      IndicatorRow("1010_1", "FEID", "Festuca idahoensis", NULL),
      IndicatorRow("1040_1", NULL, "Festuca idahoensis", "Idaho fescue") }

CoreScls ==
    { SclsRow("1010_1", "A", "Early1:ALL", "Open stands"),
      SclsRow("1010_1", "C", NULL, NULL),
      SclsRow("1020_1", "A", "Early1:ALL", "Sprouting shrubs") }

\* the files of the documents directory (DOCS_PATH): the document of 1030_1 is not among them
CoreDocuments == {"1010_1.docx", "shared.docx"}

FillId(k) == IntToStr(1005 + 10 * k) \o "_7"

FillModels(n) ==
    { ModelRow(FillId(k), "Forest and Woodland", "7", NULL, "Oak stands", NULL, NULL) : k \in 0..(n - 1) }

FillRefCon(n) == { RefRow(FillId(k), "Oak Woodland", "A", 100) : k \in 0..(n - 1) }

FillFire(n) == { FireRow(FillId(k), "Replacement", 75, 100) : k \in 0..(n - 1) }

\* the store holding the models core and n filler models, with their rows in the other tables
Store(core, n) ==
    [bps_models |-> core \cup FillModels(n),
     ref_con_long |-> {r \in CoreRefCon : \E m \in core : m.bps_model_id = r.bps_model_id} \cup FillRefCon(n),
     fire_frequency |-> {f \in CoreFire : \E m \in core : m.bps_model_id = f.bps_model_id} \cup FillFire(n),
     bps_indicators |-> {r \in CoreIndicators : \E m \in core : m.bps_model_id = r.bps_model_id},
     scls_descriptions |-> {r \in CoreScls : \E m \in core : m.bps_model_id = r.bps_model_id}]

\* the stores the model starts from: the core models, with and without the filler models
Stores == { Store(CoreModels, n) : n \in {0, NFill} }


(***************************************************************************)
(* State                                                                   *)
(***************************************************************************)
VARIABLES
    bps_models, ref_con_long, fire_frequency,   \* the store's tables
    bps_indicators, scls_descriptions,
    documents,            \* the names of the files in the documents directory
    failing,              \* the steps of the report that raise: sub-queries and the chart
    pk_index,             \* the primary-key index of bps_models: its ids in ascending order
    tie_order,            \* the engine's order among rows with equal sort key
    vegetation_types,     \* the script's cached list of vegetation types
    fire_ranges,          \* the script's cached dict severity -> min / max return interval
    uploaded_file,        \* st.file_uploader
    csv_model_ids,        \* st.session_state.csv_model_ids
    csv_not_found,        \* st.session_state.csv_not_found
    search_term, selected_vegetation, map_zone_input, bps_name_search,
    fire_preset,          \* the preset selectbox of each severity
    fire_custom,          \* the two number inputs of each severity
    limit,
    fire_filters,         \* the script's dict, rebuilt by every run
    query_conditions, query_params,
    df,                   \* the result of the run's query
    display,              \* the display-option checkboxes
    selected_models,      \* st.session_state.selected_models
    select_checkbox,      \* the checkboxes select_<model id> of the last run: value= and state
    pressed,              \* the st.button whose press the run follows, "" after any other widget
    active_filters,       \* the run's list of active filters
    zip_file,             \* the archive of the run: how often each name was written
    story                 \* the flowables of the run's PDF report

\* the script that builds the store
VARIABLES
    modelers_csv,             \* dataframes['modelers']: tables/modelers.csv, then its cleaned rows
    num_unique_bps_models,
    models_df, modelers_df,   \* dataframes['models'] and dataframes['modelers'] after the split
    etl_pc                    \* how far the script has come

etlVars == <<modelers_csv, num_unique_bps_models, models_df, modelers_df, etl_pc>>

storeVars == <<bps_models, ref_con_long, fire_frequency, bps_indicators, scls_descriptions, documents, failing,
               pk_index, tie_order, vegetation_types, fire_ranges, etlVars>>
csvVars == <<uploaded_file, csv_model_ids, csv_not_found>>
widgetVars == <<search_term, selected_vegetation, map_zone_input, bps_name_search,
                fire_preset, fire_custom, limit>>
runVars == <<fire_filters, query_conditions, query_params, df>>
pageVars == <<display, selected_models, select_checkbox, pressed, active_filters, zip_file, story>>

\* one use of the highlighter on a description of one model
VARIABLES
    h_text, h_species,    \* the passage and the model's species list
    h_pc,                 \* how far the use has come
    h_md, h_html,         \* the markdown and the HTML output
    h_md2, h_html2,       \* the outputs of highlighting those outputs again
    h_perm, h_md_perm     \* the species list in another order, and the markdown output for it

hlVars == <<h_text, h_species, h_pc, h_md, h_html, h_md2, h_html2, h_perm, h_md_perm>>

vars == <<storeVars, csvVars, widgetVars, runVars, pageVars, hlVars>>

(***************************************************************************)
(* Cached lookups that fill the sidebar                                    *)
(***************************************************************************)

\* the set S as a sequence in ascending code-point order
RECURSIVE SortedStrings(_)
SortedStrings(S) ==
    IF S = {} THEN <<>>
    ELSE LET m == CHOOSE x \in S : \A y \in S : y = x \/ StrLess(x, y)
         IN <<m>> \o SortedStrings(S \ {m})

get_vegetation_types(models) ==
    LET cleaned_types ==
            { Strip(SplitOn(SplitOn(m.vegetation_type, "\n")[1], "Map Zone")[1]) :
                  m \in {x \in models : x.vegetation_type # NULL /\ x.vegetation_type # ""} } \ {""}
    IN <<"All">> \o SortedStrings(cleaned_types)

SetMin(S) == CHOOSE x \in S : \A y \in S : x <= y
SetMax(S) == CHOOSE x \in S : \A y \in S : x >= y

get_fire_frequency_ranges(fire) ==
    LET sevs == {f.severity : f \in fire}
        vals(sv) == {f.return_interval : f \in {g \in fire : g.severity = sv}}
    IN [sv \in sevs |-> [min |-> SetMin(vals(sv)), max |-> SetMax(vals(sv))]]

(***************************************************************************)
(* Fire-frequency presets and the fire_filters dict                        *)
(***************************************************************************)

NoMax == -1

fire_presets ==
    << <<"No Filter", <<>> >>,
       <<"Very Frequent (< 10 years)", <<0, 10>> >>,
       <<"Frequent (10-50 years)", <<10, 50>> >>,
       <<"Moderate (50-100 years)", <<50, 100>> >>,
       <<"Infrequent (100-500 years)", <<100, 500>> >>,
       <<"Very Infrequent (500-1000 years)", <<500, 1000>> >>,
       <<"Rare (> 1000 years)", <<1000, NoMax>> >>,
       <<"Custom Range", <<>> >> >>

PresetNames == {fire_presets[i][1] : i \in 1..Len(fire_presets)}

PresetRange(name) == fire_presets[CHOOSE i \in 1..Len(fire_presets) : fire_presets[i][1] = name][2]

\* the entry the loop stores for one severity, <<>> when it stores none
FireFilterFor(range_info, selected_preset, custom) ==
    IF selected_preset = "Custom Range"
    THEN IF custom[1] <= custom[2] THEN custom ELSE <<>>
    ELSE IF selected_preset = "No Filter" THEN <<>>
    ELSE LET r == PresetRange(selected_preset)
             max1 == IF r[2] = NoMax THEN range_info.max ELSE r[2]
             preset_min == IF r[1] < range_info.min THEN range_info.min ELSE r[1]
             preset_max == IF max1 > range_info.max THEN range_info.max ELSE max1
         IN <<preset_min, preset_max>>

BuildFireFilters(ranges, presets, customs) ==
    LET active == {sv \in DOMAIN ranges : FireFilterFor(ranges[sv], presets[sv], customs[sv]) # <<>>}
    IN [sv \in active |-> FireFilterFor(ranges[sv], presets[sv], customs[sv])]


(***************************************************************************)
(* The query builder: query_conditions and query_params of one run         *)
(***************************************************************************)

\* sep.join(parts)
RECURSIVE Join(_, _)
Join(parts, sep) ==
    IF parts = <<>> THEN ""
    ELSE IF Len(parts) = 1 THEN parts[1]
    ELSE parts[1] \o sep \o Join(Tail(parts), sep)

Repeat(x, n) == [i \in 1..n |-> x]

RECURSIVE Flatten(_)
Flatten(ss) == IF ss = <<>> THEN <<>> ELSE ss[1] \o Flatten(Tail(ss))

\* one entry of query_conditions with the parameters appended along with it
Part(kind, n, sql, params) == [conds |-> <<[kind |-> kind, n |-> n, sql |-> sql]>>, params |-> params]

NoPart == [conds |-> <<>>, params |-> <<>>]

CsvPart(ids) ==
    IF ids # <<>>
    THEN Part("csv", Len(ids), "bm.bps_model_id IN (" \o Join(Repeat("?", Len(ids)), ",") \o ")", ids)
    ELSE NoPart

\* the free-text condition added although an allowlist is active
TextPart_AllowlistIgnored(ids, term) ==
    IF term # "" /\ Strip(term) # ""
    THEN Part("text", 6,
              "(bm.bps_model_id LIKE ? OR bm.vegetation_type LIKE ? OR bm.geographic_range LIKE ? OR "
              \o "bm.biophysical_site_description LIKE ? OR bm.vegetation_description LIKE ? OR rcl.bps_name LIKE ?)",
              Repeat("%" \o Strip(term) \o "%", 6))
    ELSE NoPart

TextPart(ids, term) ==
    IF ids = <<>> /\ term # "" /\ Strip(term) # ""
    THEN Part("text", 6,
              "(bm.bps_model_id LIKE ? OR bm.vegetation_type LIKE ? OR bm.geographic_range LIKE ? OR "
              \o "bm.biophysical_site_description LIKE ? OR bm.vegetation_description LIKE ? OR rcl.bps_name LIKE ?)",
              Repeat("%" \o Strip(term) \o "%", 6))
    ELSE NoPart

VegetationPart(veg) ==
    IF veg # "" /\ veg # "All"
    THEN Part("veg", 1, "bm.vegetation_type LIKE ?", <<veg \o "%">>)
    ELSE NoPart

\* characters for which str.isdigit() holds and which int() rejects
SuperscriptDigits == {"²"}

\* z.strip().isdigit() of a stripped token
StrIsDigit(s) == s # "" /\ \A i \in 1..Len(s) : IsDigit(Ch(s, i)) \/ Ch(s, i) \in SuperscriptDigits

\* int(...) raises ValueError on a token the comprehension keeps
ZoneParseRaises(input) ==
    \E i \in 1..Len(SplitOn(input, ",")) :
        /\ StrIsDigit(Strip(SplitOn(input, ",")[i]))
        /\ ~IsDigitStr(Strip(SplitOn(input, ",")[i]))

\* [int(z.strip()) for z in map_zone_input.split(',') if z.strip().isdigit()], when int() does not raise
ZoneNumbers(input) ==
    LET toks == SplitOn(input, ",")
        keep == SelectSeq(toks, LAMBDA z : IsDigitStr(Strip(z)))
    IN [i \in 1..Len(keep) |-> ParseInt(Strip(keep[i]))]

ZoneParams(zone) ==
    << "%, " \o IntToStr(zone) \o ",%",
       IntToStr(zone) \o ",%",
       IntToStr(zone),
       "%" \o IntToStr(zone) \o "%" >>

\* a zone condition whose text carries the zone numbers themselves in one more comparison
ZonePart_Interpolated(input) ==
    IF input # "" /\ Strip(input) # "" /\ ~ZoneParseRaises(input) /\ ZoneNumbers(input) # <<>>
    THEN Part("zones", Len(ZoneNumbers(input)),
              "(" \o Join([i \in 1..Len(ZoneNumbers(input)) |->
                             "(bm.map_zones LIKE ? OR bm.map_zones LIKE ? OR bm.map_zones = ? OR "
                             \o "bm.map_zones LIKE ? OR bm.map_zones = '"
                             \o IntToStr(ZoneNumbers(input)[i]) \o "')"], " OR ") \o ")",
              Flatten([i \in 1..Len(ZoneNumbers(input)) |-> ZoneParams(ZoneNumbers(input)[i])]))
    ELSE NoPart

ZonePart(input) ==
    IF input # "" /\ Strip(input) # "" /\ ~ZoneParseRaises(input) /\ ZoneNumbers(input) # <<>>
    THEN LET zone_numbers == ZoneNumbers(input)
             one == "(bm.map_zones LIKE ? OR bm.map_zones LIKE ? OR bm.map_zones = ? OR bm.map_zones LIKE ?)"
         IN Part("zones", Len(zone_numbers),
                 "(" \o Join(Repeat(one, Len(zone_numbers)), " OR ") \o ")",
                 Flatten([i \in 1..Len(zone_numbers) |-> ZoneParams(zone_numbers[i])]))
    ELSE NoPart

NamePart(name) ==
    IF name # "" /\ Strip(name) # ""
    THEN Part("name", 1, "rcl.bps_name LIKE ?", <<"%" \o Strip(name) \o "%">>)
    ELSE NoPart

\* the keys of fire_filters in insertion order (the order of severity_order)
FireKeys(filters) == SelectSeq(severity_order, LAMBDA sv : sv \in DOMAIN filters)

\* the two ends of each interval appended in the other order
FirePart_BoundsSwapped(filters, ranges) ==
    LET keys == SelectSeq(FireKeys(filters), LAMBDA sv : sv \in DOMAIN ranges)
        one == "EXISTS (SELECT 1 FROM fire_frequency ff WHERE ff.bps_model_id = bm.bps_model_id "
               \o "AND ff.severity = ? AND ff.return_interval >= ? AND ff.return_interval <= ?)"
    IN IF keys # <<>>
       THEN Part("fire", Len(keys),
                 "(" \o Join(Repeat(one, Len(keys)), " AND ") \o ")",
                 Flatten([i \in 1..Len(keys) |-> <<keys[i], filters[keys[i]][2], filters[keys[i]][1]>>]))
       ELSE NoPart

FirePart(filters, ranges) ==
    LET keys == SelectSeq(FireKeys(filters), LAMBDA sv : sv \in DOMAIN ranges)
        one == "EXISTS (SELECT 1 FROM fire_frequency ff WHERE ff.bps_model_id = bm.bps_model_id "
               \o "AND ff.severity = ? AND ff.return_interval >= ? AND ff.return_interval <= ?)"
    IN IF keys # <<>>
       THEN Part("fire", Len(keys),
                 "(" \o Join(Repeat(one, Len(keys)), " AND ") \o ")",
                 Flatten([i \in 1..Len(keys) |-> <<keys[i], filters[keys[i]][1], filters[keys[i]][2]>>]))
       ELSE NoPart

\* query_conditions and query_params as the script leaves them before "Build final query"
BuildQuery(ids, term, veg, zones, name, filters, ranges) ==
    LET parts == << CsvPart(ids), TextPart(ids, term), VegetationPart(veg),
                    ZonePart(zones), NamePart(name), FirePart(filters, ranges) >>
    IN [conds |-> Flatten([i \in 1..Len(parts) |-> parts[i].conds]),
        params |-> Flatten([i \in 1..Len(parts) |-> parts[i].params])]


(***************************************************************************)
(* The final query as the SQL engine evaluates it                          *)
(***************************************************************************)

\* s.count(c)
CountChar(s, c) == Cardinality({i \in 1..Len(s) : Ch(s, i) = c})

RECURSIVE Sum(_)
Sum(ns) == IF ns = <<>> THEN 0 ELSE ns[1] + Sum(Tail(ns))

\* positional binding: each condition takes as many parameters as its SQL text has placeholders
\* (counts[i] of them for the i-th condition)
RECURSIVE Bind(_, _, _)
Bind(conds, counts, params) ==
    IF conds = <<>> THEN <<>>
    ELSE <<[kind |-> conds[1].kind, n |-> conds[1].n, args |-> SubSeq(params, 1, counts[1])]>>
         \o Bind(Tail(conds), Tail(counts), SubSeq(params, counts[1] + 1, Len(params)))

\* FROM bps_models bm LEFT JOIN ref_con_long rcl ON bm.bps_model_id = rcl.bps_model_id,
\* projected on the selected columns
JoinRow(bm, name) ==
    [bps_model_id |-> bm.bps_model_id, vegetation_type |-> bm.vegetation_type,
     map_zones |-> bm.map_zones, document |-> bm.document,
     vegetation_description |-> bm.vegetation_description,
     geographic_range |-> bm.geographic_range,
     biophysical_site_description |-> bm.biophysical_site_description,
     scale_description |-> bm.scale_description,
     issues_or_problems |-> bm.issues_or_problems,
     native_uncharacteristic_conditions |-> bm.native_uncharacteristic_conditions,
     bps_name |-> name]

JoinedRows(models, refcon) ==
    UNION { LET rcl == {r \in refcon : r.bps_model_id = bm.bps_model_id}
            IN IF rcl = {} THEN {JoinRow(bm, NULL)} ELSE {JoinRow(bm, r.bps_name) : r \in rcl}
            : bm \in models }

InCondition(row, args) == \E i \in 1..Len(args) : row.bps_model_id = args[i]

TextCondition(row, args) ==
    \/ Like(row.bps_model_id, args[1])
    \/ Like(row.vegetation_type, args[2])
    \/ Like(row.geographic_range, args[3])
    \/ Like(row.biophysical_site_description, args[4])
    \/ Like(row.vegetation_description, args[5])
    \/ Like(row.bps_name, args[6])

ZoneCondition(row, n, args) ==
    \E i \in 0..(n - 1) :
        \/ Like(row.map_zones, args[4 * i + 1])
        \/ Like(row.map_zones, args[4 * i + 2])
        \/ (row.map_zones # NULL /\ row.map_zones = args[4 * i + 3])
        \/ Like(row.map_zones, args[4 * i + 4])

\* the upper bound of the interval taken as exclusive
FireCondition_ExclusiveMax(row, n, args, fire) ==
    \A i \in 0..(n - 1) :
        \E ff \in fire :
            /\ ff.bps_model_id = row.bps_model_id
            /\ ff.severity = args[3 * i + 1]
            /\ ff.return_interval >= args[3 * i + 2]
            /\ ff.return_interval < args[3 * i + 3]

FireCondition(row, n, args, fire) ==
    \A i \in 0..(n - 1) :
        \E ff \in fire :
            /\ ff.bps_model_id = row.bps_model_id
            /\ ff.severity = args[3 * i + 1]
            /\ ff.return_interval >= args[3 * i + 2]
            /\ ff.return_interval <= args[3 * i + 3]

EvalCondition(b, row, fire) ==
    CASE b.kind = "csv" -> InCondition(row, b.args)
      [] b.kind = "text" -> TextCondition(row, b.args)
      [] b.kind = "veg" -> Like(row.vegetation_type, b.args[1])
      [] b.kind = "zones" -> ZoneCondition(row, b.n, b.args)
      [] b.kind = "name" -> Like(row.bps_name, b.args[1])
      [] b.kind = "fire" -> FireCondition(row, b.n, b.args, fire)

\* the rows of one model, in the engine's own order
TieBefore(a, b, tie) ==
    IF tie = "asc" THEN StrLess(a.bps_name, b.bps_name) ELSE StrLess(b.bps_name, a.bps_name)

RECURSIVE OrderTies(_, _)
OrderTies(S, tie) ==
    IF S = {} THEN <<>>
    ELSE LET m == CHOOSE x \in S : \A y \in S : y = x \/ TieBefore(x, y, tie)
         IN <<m>> \o OrderTies(S \ {m}, tie)

\* ORDER BY bm.bps_model_id: the rows taken in the order of the primary-key index
OrderRows(S, index, tie) ==
    Flatten([i \in 1..Len(index) |->
                LET rows == {x \in S : x.bps_model_id = index[i]}
                IN IF rows = {} THEN <<>>
                   ELSE IF Cardinality(rows) = 1 THEN <<CHOOSE x \in rows : TRUE>>
                   ELSE OrderTies(rows, tie)])

\* SELECT DISTINCT ... WHERE c1 AND c2 ... ORDER BY bm.bps_model_id LIMIT ?
\* params is query_params after query_params.append(limit)
Placeholders(conds) == [i \in 1..Len(conds) |-> CountChar(conds[i].sql, "?")]

\* the joined rows that satisfy WHERE c1 AND c2 ..., DISTINCT over the selected columns
MatchingRows(conds, params, models, refcon, fire) ==
    LET bound == Bind(conds, Placeholders(conds), params)
    IN {row \in JoinedRows(models, refcon) :
            \A i \in 1..Len(bound) : EvalCondition(bound[i], row, fire)}

\* the query without its LIMIT clause
FinalQuery_NoLimit(conds, params, models, refcon, fire, index, tie) ==
    LET nq == Sum(Placeholders(conds))
    IN IF nq + 1 # Len(params)
       THEN <<>>
       ELSE OrderRows(MatchingRows(conds, params, models, refcon, fire), index, tie)

FinalQuery(conds, params, models, refcon, fire, index, tie) ==
    LET nq == Sum(Placeholders(conds))
        lim == params[nq + 1]
        ordered == OrderRows(MatchingRows(conds, params, models, refcon, fire), index, tie)
    IN IF nq + 1 # Len(params)
       THEN <<>>       \* wrong number of bindings: the except branch leaves an empty DataFrame
       ELSE SubSeq(ordered, 1, IF Len(ordered) < lim THEN Len(ordered) ELSE lim)


(***************************************************************************)
(* CSV upload processing                                                   *)
(***************************************************************************)

possible_names == <<"bps_model_id", "model_id", "bps_modelid", "modelid", "BPS_Model_ID", "Model_ID">>

NoFile == [present |-> FALSE, parse_ok |-> FALSE, columns |-> <<>>, rows |-> <<>>]

\* a file pd.read_csv parses: its header and its rows of cells (NULL for an empty cell)
CsvFile(columns, rows) == [present |-> TRUE, parse_ok |-> TRUE, columns |-> columns, rows |-> rows]

\* a file pd.read_csv raises on
BadFile == [present |-> TRUE, parse_ok |-> FALSE, columns |-> <<>>, rows |-> <<>>]

\* Series.unique(): first occurrences, in order
RECURSIVE Unique(_)
Unique(xs) ==
    IF xs = <<>> THEN <<>>
    ELSE LET rest == Unique(SubSeq(xs, 1, Len(xs) - 1))
             x == xs[Len(xs)]
         IN IF \E i \in 1..Len(rest) : rest[i] = x THEN rest ELSE Append(rest, x)

\* [name.lower() for name in possible_names]
possible_names_lower == {Lower(possible_names[i]) : i \in 1..Len(possible_names)}

\* the search led by the alias list: the column of the first alias that some header matches
IdColumn_AliasOrder(file) ==
    LET hits == {i \in 1..Len(file.columns) : Strip(Lower(file.columns[i])) \in possible_names_lower}
        rank(i) == SetMin({k \in 1..Len(possible_names) :
                             Lower(possible_names[k]) = Strip(Lower(file.columns[i]))})
    IN IF hits # {} THEN CHOOSE i \in hits : \A j \in hits : rank(i) < rank(j) \/ (rank(i) = rank(j) /\ i <= j)
       ELSE 1

IdColumn(file) ==
    LET hits == {i \in 1..Len(file.columns) : Strip(Lower(file.columns[i])) \in possible_names_lower}
    IN IF hits # {} THEN SetMin(hits) ELSE 1

\* csv_model_ids as the try block leaves it; the except branch leaves []
CsvModelIds(file) ==
    IF ~file.present \/ ~file.parse_ok \/ file.columns = <<>> THEN <<>>
    ELSE LET c == IdColumn(file)
             cells == [i \in 1..Len(file.rows) |-> file.rows[i][c]]
             present == SelectSeq(cells, LAMBDA x : x # NULL)
             stripped == [i \in 1..Len(present) |-> Strip(present[i])]
         IN SelectSeq(Unique(stripped), LAMBDA x : x # "")

\* st.session_state.csv_not_found after the try block, ids being the csv_model_ids it extracted
CsvNotFound(file, ids, old_not_found, models) ==
    IF ~file.present THEN old_not_found
    ELSE IF ~file.parse_ok \/ file.columns = <<>> THEN <<>>
    ELSE IF ids = <<>> THEN old_not_found
    ELSE SelectSeq(ids, LAMBDA x : ~\E m \in models : m.bps_model_id = x)

\* the session's allowlist and not-found list after "Update session state when CSV is uploaded or cleared"
SessionUpdate(file, ids, nf, old_ids) ==
    IF file.present /\ ids # <<>> THEN [ids |-> ids, not_found |-> nf]
    ELSE IF ~file.present /\ old_ids # <<>> THEN [ids |-> <<>>, not_found |-> <<>>]
    ELSE [ids |-> old_ids, not_found |-> nf]

\* the try block run on ids, the csv_model_ids it extracted, then the session update
CsvSessionFor(file, ids, old_ids, old_not_found, models) ==
    SessionUpdate(file, ids, CsvNotFound(file, ids, old_not_found, models), old_ids)

CsvSession(file, old_ids, old_not_found, models) ==
    CsvSessionFor(file, CsvModelIds(file), old_ids, old_not_found, models)


(***************************************************************************)
(* The name highlighter: Python's re.sub on the patterns the code builds   *)
(***************************************************************************)

\* a pattern is  \b item item ... \b ; an item is an escaped literal or \s+
Lit(s) == [ws |-> FALSE, lit |-> s]
Ws == [ws |-> TRUE, lit |-> ""]

\* rf'\b{w1}\s+{w2}\s+...\b'
RECURSIVE Words(_)
Words(ws) == IF Len(ws) = 1 THEN <<Lit(ws[1])>> ELSE <<Lit(ws[1]), Ws>> \o Words(Tail(ws))

\* re.IGNORECASE comparison of two strings of equal length
RECURSIVE EqualsIgnoreCase(_, _)
EqualsIgnoreCase(a, b) ==
    IF a = "" THEN TRUE
    ELSE LowerCh(Ch(a, 1)) = LowerCh(Ch(b, 1)) /\ EqualsIgnoreCase(Tail(a), Tail(b))

WordAt(text, k) == k >= 1 /\ k <= Len(text) /\ IsWordChar(Ch(text, k))

\* the patterns written without \b
Boundary_Anywhere(text, i) == TRUE

\* \b holds just before position i
Boundary(text, i) == WordAt(text, i - 1) # WordAt(text, i)

\* the number of whitespace characters from position i on
RECURSIVE SpaceRun(_, _)
SpaceRun(text, i) == IF i <= Len(text) /\ IsSpace(Ch(text, i)) THEN 1 + SpaceRun(text, i + 1) ELSE 0

\* items k.. of pat matched from position i: the position after the match, 0 for no match
RECURSIVE MatchItems(_, _, _, _)
MatchItems(text, pat, k, i) ==
    IF k > Len(pat) THEN i
    ELSE IF pat[k].ws
         THEN LET n == SpaceRun(text, i)
              IN IF n = 0 THEN 0 ELSE MatchItems(text, pat, k + 1, i + n)
         ELSE LET n == Len(pat[k].lit)
              IN IF i + n - 1 <= Len(text) /\ EqualsIgnoreCase(SubSeq(text, i, i + n - 1), pat[k].lit)
                 THEN MatchItems(text, pat, k + 1, i + n)
                 ELSE 0

MatchAt(text, pat, i) ==
    IF Boundary(text, i)
    THEN LET e == MatchItems(text, pat, 1, i)
         IN IF e # 0 /\ Boundary(text, e) THEN e ELSE 0
    ELSE 0

\* re.sub(pattern, repl, text, flags=re.IGNORECASE) from position pos on:
\* leftmost matches, not overlapping
RECURSIVE ReSubFrom(_, _, _, _)
ReSubFrom(text, pat, repl, pos) ==
    LET starts == {i \in pos..Len(text) : MatchAt(text, pat, i) # 0}
    IN IF starts = {} THEN SubSeq(text, pos, Len(text))
       ELSE LET i == SetMin(starts)
            IN SubSeq(text, pos, i - 1) \o repl \o ReSubFrom(text, pat, repl, MatchAt(text, pat, i))

ReSub(text, pat, repl) == ReSubFrom(text, pat, repl, 1)

SubspeciesMarkers == {"subsp.", "ssp.", "subspecies", "var.", "variety"}

\* base_patterns after the extend: pairs (pattern, replacement)
BasePatterns(scientific_name) ==
    LET parts == SplitWs(scientific_name)
        genus == parts[1]
        species == parts[2]
        g == Ch(genus, 1)
        has_sub == Len(parts) >= 4 /\ Lower(parts[3]) \in SubspeciesMarkers
        sub == parts[4]
        base == << <<<<Lit(scientific_name)>>, scientific_name>>,
                   <<Words(<<genus, species>>), genus \o " " \o species>>,
                   <<Words(<<g \o ".", species>>), g \o ". " \o species>>,
                   <<Words(<<g, species>>), g \o " " \o species>> >>
        subsp == << <<Words(<<genus, species, "subsp.", sub>>), genus \o " " \o species \o " subsp. " \o sub>>,
                    <<Words(<<genus, species, "ssp.", sub>>), genus \o " " \o species \o " ssp. " \o sub>>,
                    <<Words(<<g \o ".", species, "subsp.", sub>>), g \o ". " \o species \o " subsp. " \o sub>>,
                    <<Words(<<g \o ".", species, "ssp.", sub>>), g \o ". " \o species \o " ssp. " \o sub>>,
                    <<Words(<<genus, species, "ssp.", Ch(sub, 1), Tail(sub)>>),
                      genus \o " " \o species \o " ssp. " \o sub>> >>
    IN IF has_sub THEN base \o subsp ELSE base

\* for pattern, replacement in reversed(base_patterns): guarded re.sub
RECURSIVE ApplyPatterns(_, _, _, _)
ApplyPatterns(text, pats, open, close) ==
    IF pats = <<>> THEN text
    ELSE LET p == pats[Len(pats)]
             replacement == p[2]
             t2 == IF ~Contains(text, "*" \o replacement \o "*")
                      /\ ~Contains(text, "<i>" \o replacement \o "</i>")
                   THEN ReSub(text, p[1], open \o replacement \o close)
                   ELSE text
         IN ApplyPatterns(t2, SubSeq(pats, 1, Len(pats) - 1), open, close)

\* the body of the loop over species_list for one name
ItalicizeOne(text, scientific_name, open, close) ==
    IF scientific_name = NULL \/ scientific_name = "" \/ Len(Strip(scientific_name)) < 3 THEN text
    ELSE IF Len(SplitWs(Strip(scientific_name))) < 2 THEN text
    ELSE ApplyPatterns(text, BasePatterns(Strip(scientific_name)), open, close)

RECURSIVE ItalicizeAll(_, _, _, _)
ItalicizeAll(text, species_list, open, close) ==
    IF species_list = <<>> THEN text
    ELSE ItalicizeAll(ItalicizeOne(text, species_list[1], open, close), Tail(species_list), open, close)

italicize_scientific_names_from_table(text, species_list) ==
    IF text = NULL \/ text = "" \/ species_list = <<>> THEN text
    ELSE ItalicizeAll(text, species_list, "*", "*")

italicize_scientific_names_from_table_html(text, species_list) ==
    IF text = NULL \/ text = "" \/ species_list = <<>> THEN text
    ELSE ItalicizeAll(text, species_list, "<i>", "</i>")


(***************************************************************************)
(* The results page: display options, active filters and the ZIP archive   *)
(***************************************************************************)

\* the display-option checkboxes (their keys without the prefix disp_), in the page's order
DisplayOptions ==
    <<"model_id", "bps_name", "veg_desc", "geo_range", "biophysical_site", "scale_desc",
      "issues", "uncharacteristic", "species", "succession", "document", "fire_charts">>

DisplayKeys == {DisplayOptions[i] : i \in 1..Len(DisplayOptions)}

\* value= of each checkbox, and the values the script sets when no filter is applied
DisplayDefaults == [k \in DisplayKeys |-> k \in {"model_id", "bps_name", "document"}]

\* "Show active filters"
ActiveFilters(csv_ids, term, veg, zones, name) ==
    (IF csv_ids # <<>> THEN <<"CSV Upload: " \o IntToStr(Len(csv_ids)) \o " model ID(s)">> ELSE <<>>)
    \o (IF term # "" /\ csv_ids = <<>> THEN <<"Text: '" \o term \o "'">> ELSE <<>>)
    \o (IF veg # "All" THEN <<"Vegetation: " \o veg>> ELSE <<>>)
    \o (IF zones # "" THEN <<"Map Zones: " \o zones>> ELSE <<>>)
    \o (IF name # "" THEN <<"BPS Name: '" \o name \o "'">> ELSE <<>>)

\* df['bps_model_id'].tolist() as a set
RowIds(rows) == {rows[i].bps_model_id : i \in 1..Len(rows)}

\* the result rows the loop "Display results with checkboxes" gets through: the checkbox of a row
\* has the key select_<model id>, and the run ends with Streamlit's duplicate-key error at the
\* first row whose model already has a checkbox
RowsRendered(rows) ==
    SubSeq(rows, 1,
           IF \E i \in 1..Len(rows) : \E j \in 1..(i - 1) : rows[j].bps_model_id = rows[i].bps_model_id
           THEN (CHOOSE i \in 1..Len(rows) :
                    /\ \E j \in 1..(i - 1) : rows[j].bps_model_id = rows[i].bps_model_id
                    /\ \A k \in 1..(i - 1) :
                          \A j \in 1..(k - 1) : rows[j].bps_model_id # rows[k].bps_model_id) - 1
           ELSE Len(rows))

\* the run reaches the bulk downloads below the result rows
DownloadsReached(rows) == Len(rows) > 0 /\ RowsRendered(rows) = rows

\* df[df['bps_model_id'] == model_id].iloc[0]
FirstRow(rows, model_id) ==
    rows[CHOOSE i \in 1..Len(rows) :
            /\ rows[i].bps_model_id = model_id
            /\ \A j \in 1..(i - 1) : rows[j].bps_model_id # model_id]

\* the selected models for which the loop reaches zip_file.write
ZipWriters(selected, rows, docs) ==
    {id \in selected \cap RowIds(rows) :
        FirstRow(rows, id).document # NULL /\ FirstRow(rows, id).document \in docs}

\* the archive after the loop: each name with the number of entries written under it
ZipFile(selected, rows, docs) ==
    [n \in {FirstRow(rows, id).document : id \in ZipWriters(selected, rows, docs)} |->
        Cardinality({id \in ZipWriters(selected, rows, docs) : FirstRow(rows, id).document = n})]

(***************************************************************************)
(* The PDF report: create_pdf_report's story, without its Spacers          *)
(***************************************************************************)

\* the flowables of the story
Paragraph(text) == [type |-> "Paragraph", text |-> text, rows |-> <<>>]
Table(rows) == [type |-> "Table", text |-> "", rows |-> rows]
Image == [type |-> "Image", text |-> "", rows |-> <<>>]
PageBreak == [type |-> "PageBreak", text |-> "", rows |-> <<>>]

\* the lengths at which a long text is split into paragraphs, and the room of one paragraph
LongTextLen == 3000
LongTextRoom == 2000
LongDescriptionLen == 2000
LongDescriptionRoom == 1500

\* str(e) of a failing step
ErrorText == "unable to open database file"

\* f"{x:.1f}" of a whole number
FormatOneDecimal(n) == IntToStr(n) \o ".0"

\* the elements of S in ascending rank, rank[x] being the number of elements the order puts before x
RECURSIVE OrderByRank(_, _)
OrderByRank(S, rank) ==
    IF S = {} THEN <<>>
    ELSE LET m == CHOOSE x \in S : \A y \in S : rank[x] <= rank[y]
         IN <<m>> \o OrderByRank(S \ {m}, rank)

\* ascending order of a text column: NULL first
TextBefore(a, b) == a # b /\ (a = NULL \/ (b # NULL /\ StrLess(a, b)))

\* the loop over sentences, current_para being the paragraph under construction
RECURSIVE SplitParagraphs(_, _, _)
SplitParagraphs(sentences, current_para, room) ==
    IF sentences = <<>>
    THEN IF current_para # "" THEN <<Paragraph(Strip(current_para))>> ELSE <<>>
    ELSE IF Len(current_para) + Len(sentences[1]) < room
         THEN SplitParagraphs(Tail(sentences), current_para \o sentences[1] \o ". ", room)
         ELSE (IF current_para # "" THEN <<Paragraph(Strip(current_para))>> ELSE <<>>)
              \o SplitParagraphs(Tail(sentences), sentences[1] \o ". ", room)

\* "split into paragraphs if very long"
TextParagraphs(text, long, room) ==
    IF Len(text) > long THEN SplitParagraphs(SplitOn(text, ". "), "", room)
    ELSE <<Paragraph(text)>>

get_species_list_for_model(indicators, model_id) ==
    SortedStrings({r.scientific_name :
                      r \in {x \in indicators : x.bps_model_id = model_id /\ x.scientific_name # NULL}})

\* one of the six description sections of a model's page
TextSection(on, value, label, species_list) ==
    IF on /\ value # NULL /\ value # ""
    THEN <<Paragraph("<b>" \o label \o ":</b>")>>
         \o TextParagraphs(italicize_scientific_names_from_table_html(value, species_list),
                           LongTextLen, LongTextRoom)
    ELSE <<>>

\* species_query: the model's rows of bps_indicators, ORDER BY scientific_name
SpeciesRows(indicators, model_id) ==
    OrderByRank({r \in indicators : r.bps_model_id = model_id},
                [x \in indicators |->
                    Cardinality({y \in indicators :
                                    /\ y.bps_model_id = x.bps_model_id
                                    /\ TextBefore(y.scientific_name, x.scientific_name)})])

OrNA(value) == IF value # NULL THEN value ELSE "N/A"

SpeciesTable(rows) ==
    Table(<< <<"Symbol", "Scientific Name", "Common Name">> >>
          \o [i \in 1..Len(rows) |->
                <<OrNA(rows[i].symbol), OrNA(rows[i].scientific_name), OrNA(rows[i].common_name)>>])

\* a failing species query without the except branch: nothing is appended for the section
SpeciesSection_Unguarded(on, indicators, model_id, fails) ==
    IF ~on \/ "species" \in fails THEN <<>>
    ELSE <<Paragraph("<b>BpS Dominant and Indicator Species:</b>")>>
         \o (IF SpeciesRows(indicators, model_id) # <<>>
             THEN <<SpeciesTable(SpeciesRows(indicators, model_id))>>
             ELSE <<Paragraph("<i>No species indicator data available for this model.</i>")>>)

\* "BpS Dominant and Indicator Species (table)"
SpeciesSection(on, indicators, model_id, fails) ==
    IF ~on THEN <<>>
    ELSE <<Paragraph("<b>BpS Dominant and Indicator Species:</b>")>>
         \o (IF "species" \in fails
             THEN <<Paragraph("<i>Error retrieving species data: " \o ErrorText \o "</i>")>>
             ELSE IF SpeciesRows(indicators, model_id) # <<>>
             THEN <<SpeciesTable(SpeciesRows(indicators, model_id))>>
             ELSE <<Paragraph("<i>No species indicator data available for this model.</i>")>>)

\* succession_query: scls_descriptions LEFT JOIN ref_con_long on model and ref_label
SuccessionJoin(scls, refcon, model_id) ==
    UNION { LET rcl == {r \in refcon : r.bps_model_id = s.bps_model_id /\ r.ref_label = s.ref_label}
            IN IF rcl = {}
               THEN {[ref_label |-> s.ref_label, state_class_id |-> s.state_class_id,
                      description |-> s.description, has_percent |-> FALSE, ref_percent |-> 0]}
               ELSE {[ref_label |-> s.ref_label, state_class_id |-> s.state_class_id,
                      description |-> s.description, has_percent |-> TRUE, ref_percent |-> r.ref_percent]
                        : r \in rcl}
            : s \in {x \in scls : x.bps_model_id = model_id} }

\* ... ORDER BY scl.ref_label
SuccessionRows(joined) ==
    OrderByRank(joined,
                [x \in joined |-> Cardinality({y \in joined : TextBefore(y.ref_label, x.ref_label)})])

\* the paragraphs of one succession class
SuccessionClass(scls_row, species_list) ==
    <<Paragraph("<b>" \o (IF scls_row.ref_label # NULL THEN scls_row.ref_label ELSE "Unknown")
                \o (IF scls_row.has_percent
                    THEN " (" \o FormatOneDecimal(scls_row.ref_percent) \o "%)" ELSE "")
                \o "</b> (State Class: " \o OrNA(scls_row.state_class_id) \o ")")>>
    \o TextParagraphs(italicize_scientific_names_from_table_html(
                          IF scls_row.description # NULL THEN scls_row.description
                          ELSE "No description available", species_list),
                      LongDescriptionLen, LongDescriptionRoom)

\* "Succession Class Descriptions (no table, just full descriptions)"
SuccessionSection(on, scls, refcon, indicators, model_id, fails) ==
    IF ~on THEN <<>>
    ELSE <<Paragraph("<b>Succession Class Descriptions:</b>")>>
         \o (IF "succession" \in fails
             THEN <<Paragraph("<i>Error retrieving succession class data: " \o ErrorText \o "</i>")>>
             ELSE IF SuccessionJoin(scls, refcon, model_id) # {}
             THEN Flatten([i \in 1..Cardinality(SuccessionJoin(scls, refcon, model_id)) |->
                             SuccessionClass(SuccessionRows(SuccessionJoin(scls, refcon, model_id))[i],
                                             get_species_list_for_model(indicators, model_id))])
             ELSE <<Paragraph("<i>No succession class descriptions available for this model.</i>")>>)

\* fire_query: the model's rows of fire_frequency with a severity, ORDER BY percent DESC
FireRows(fire, model_id) ==
    OrderByRank({f \in fire : f.bps_model_id = model_id /\ f.severity # NULL},
                [x \in fire |->
                    Cardinality({y \in fire :
                                    /\ y.bps_model_id = x.bps_model_id
                                    /\ y.severity # NULL
                                    /\ y.percent_of_all_fires > x.percent_of_all_fires})])

FireTable(rows) ==
    Table(<< <<"Severity", "Return Interval (years)", "Percent of All Fires">> >>
          \o [i \in 1..Len(rows) |->
                <<rows[i].severity, FormatOneDecimal(rows[i].return_interval),
                  FormatOneDecimal(rows[i].percent_of_all_fires) \o "%">>])

\* "Fire Regime Charts data": the chart is an Image, or a note when drawing it raises
FireSection(on, fire, model_id, fails) ==
    IF ~on THEN <<>>
    ELSE <<Paragraph("<b>Fire Regime Data:</b>")>>
         \o (IF "fire" \in fails
             THEN <<Paragraph("<i>Database error: " \o ErrorText \o "</i>")>>
             ELSE IF FireRows(fire, model_id) = <<>>
             THEN <<Paragraph("<i>No fire data found for model " \o model_id \o "</i>")>>
             ELSE (IF "chart" \in fails
                   THEN <<Paragraph("<i>Could not generate chart: " \o ErrorText \o "</i>")>>
                   ELSE <<Image>>)
                  \o <<FireTable(FireRows(fire, model_id))>>)

\* "Model header"
ModelHeader(row) ==
    Paragraph(row.bps_model_id
              \o (IF row.bps_name # NULL /\ row.bps_name # "" THEN " - " \o row.bps_name ELSE ""))

\* the six description sections in the order of the report: display option, column, heading
TextSections ==
    << <<"veg_desc", "vegetation_description", "Vegetation Description">>,
       <<"geo_range", "geographic_range", "Geographic Range">>,
       <<"biophysical_site", "biophysical_site_description", "Biophysical Site Description">>,
       <<"scale_desc", "scale_description", "Scale Description">>,
       <<"issues", "issues_or_problems", "Issues or Problems">>,
       <<"uncharacteristic", "native_uncharacteristic_conditions",
         "Native Uncharacteristic Conditions">> >>

\* one pass of the loop "Process each selected model", for a model that has a result row
ModelPage(row, model_id, show, refcon, fire, indicators, scls, fails) ==
    <<ModelHeader(row)>>
    \o (IF show["model_id"] THEN <<Paragraph("<b>Model ID:</b> " \o row.bps_model_id)>> ELSE <<>>)
    \o (IF show["bps_name"] /\ row.bps_name # NULL /\ row.bps_name # ""
        THEN <<Paragraph("<b>BPS Name:</b> " \o row.bps_name)>> ELSE <<>>)
    \o Flatten([k \in 1..Len(TextSections) |->
                   TextSection(show[TextSections[k][1]], row[TextSections[k][2]], TextSections[k][3],
                               get_species_list_for_model(indicators, model_id))])
    \o SpeciesSection(show["species"], indicators, model_id, fails)
    \o SuccessionSection(show["succession"], scls, refcon, indicators, model_id, fails)
    \o FireSection(show["fire_charts"], fire, model_id, fails)
    \o <<PageBreak>>

\* the loop over sorted(st.session_state.selected_models): a model without a result row is skipped
RECURSIVE ModelPages(_, _, _, _, _, _, _, _)
ModelPages(ids, rows, show, refcon, fire, indicators, scls, fails) ==
    IF ids = <<>> THEN <<>>
    ELSE (IF ids[1] \in RowIds(rows)
          THEN ModelPage(FirstRow(rows, ids[1]), ids[1], show, refcon, fire, indicators, scls, fails)
          ELSE <<>>)
         \o ModelPages(Tail(ids), rows, show, refcon, fire, indicators, scls, fails)

\* the labels of "Display Options Used", for the options the report has a section for
ReportOptions ==
    << <<"model_id", "Model ID">>, <<"bps_name", "BPS Name">>,
       <<"veg_desc", "Vegetation Description">>, <<"geo_range", "Geographic Range">>,
       <<"biophysical_site", "Biophysical Site Description">>, <<"scale_desc", "Scale Description">>,
       <<"issues", "Issues or Problems">>, <<"uncharacteristic", "Native Uncharacteristic Conditions">>,
       <<"species", "BpS Dominant and Indicator Species">>,
       <<"succession", "Succession Class Descriptions">>, <<"fire_charts", "Fire Regime Charts">> >>

DisplayOptionsUsed(show) ==
    Flatten([i \in 1..Len(ReportOptions) |->
                IF show[ReportOptions[i][1]] THEN <<ReportOptions[i][2]>> ELSE <<>>])

\* the story up to the first model
ReportHead(filters, num_selected, show) ==
    <<Paragraph("BPS Database Explorer - Report")>>
    \o (IF filters # <<>> THEN <<Paragraph("<b>Active Filters:</b> " \o Join(filters, " | "))>> ELSE <<>>)
    \o <<Paragraph("<b>Total Models:</b> " \o IntToStr(num_selected))>>
    \o (IF DisplayOptionsUsed(show) # <<>>
        THEN <<Paragraph("<b>Display Options Used:</b> " \o Join(DisplayOptionsUsed(show), ", "))>>
        ELSE <<>>)
    \o (IF show["fire_charts"]
        THEN <<Paragraph("<i>Note: Fire Regime Charts option is ENABLED - "
                         \o "fire data will be included for each model.</i>")>>
        ELSE <<>>)

\* pdf_show_* are the display options at the time of the run
create_pdf_report(filters, selected, rows, show, refcon, fire, indicators, scls, fails) ==
    ReportHead(filters, Cardinality(selected), show)
    \o ModelPages(SortedStrings(selected), rows, show, refcon, fire, indicators, scls, fails)

(***************************************************************************)
(* One run of the page script, and the user's actions that trigger it      *)
(***************************************************************************)

\* what the user types or picks
SearchTerms == {"", "oak"}
ZoneInputs == {"", "7", "7, x,12"}
NameInputs == {"", "oak"}
PresetChoices == {"No Filter", "Moderate (50-100 years)"}
Limits == {LimitMin, LimitDefault}

IdFile ==
    CsvFile(<<"notes", "BPS_Model_ID ">>,
            << <<"a", "1010_1">>, <<NULL, " 1030_1 ">>, <<"b", "9999_9">>, <<"c", "1010_1">>,
               <<"d", NULL>>, <<"e", "1015_7">>, <<"f", "1020_1">> >>)
Files == {IdFile}

NoCustom == <<0, 0>>

\* the script from the file uploader down to the execution of the final query
\* st.session_state after the upload section
RunUpload(sess) ==
    /\ csv_model_ids' = sess.ids
    /\ csv_not_found' = sess.not_found

\* "Build final query" and its execution, q being the conditions and parameters built before
RunQuery(q, lim) ==
    /\ query_conditions' = q.conds
    /\ query_params' = IF q.conds # <<>> THEN Append(q.params, lim) ELSE q.params
    /\ df' = IF q.conds # <<>>
             THEN FinalQuery(q.conds, query_params', bps_models, ref_con_long, fire_frequency,
                             pk_index, tie_order)
             ELSE <<>>

\* the script below the query: the display options, the active filters, the checkboxes of the
\* result rows (is_selected being the selected models before them, sel after them) and the two
\* bulk downloads
RunPage(term, veg, zones, name, show, is_selected, sel, button) ==
    /\ pressed' = button
    /\ display' = IF query_conditions' # <<>> THEN show ELSE DisplayDefaults
    /\ selected_models' = sel
    /\ select_checkbox' = [id \in RowIds(RowsRendered(df')) |->
                              [value |-> id \in is_selected, state |-> id \in sel]]
    /\ active_filters' = IF Len(df') > 0 THEN ActiveFilters(csv_model_ids', term, veg, zones, name)
                         ELSE <<>>
    /\ zip_file' = IF DownloadsReached(df') /\ sel # {} THEN ZipFile(sel, df', documents) ELSE <<>>
    /\ story' = IF DownloadsReached(df') /\ sel # {}
                THEN create_pdf_report(active_filters', sel, df', display', ref_con_long,
                                       fire_frequency, bps_indicators, scls_descriptions, failing)
                ELSE <<>>

\* a run of the whole script, sess being st.session_state after the upload section
RerunWith(sess, term, veg, zones, name, presets, customs, lim, show, is_selected, sel, button) ==
    /\ RunUpload(sess)
    /\ fire_filters' = BuildFireFilters(fire_ranges, presets, customs)
    /\ RunQuery(BuildQuery(csv_model_ids', term, veg, zones, name, fire_filters', fire_ranges), lim)
    /\ RunPage(term, veg, zones, name, show, is_selected, sel, button)

RerunPage(file, term, veg, zones, name, presets, customs, lim, show, is_selected, sel, button) ==
    RerunWith(CsvSession(file, csv_model_ids, csv_not_found, bps_models),
              term, veg, zones, name, presets, customs, lim, show, is_selected, sel, button)

\* a run in which the user has touched neither a display option nor a result row's checkbox
Rerun(file, term, veg, zones, name, presets, customs, lim) ==
    RerunPage(file, term, veg, zones, name, presets, customs, lim, display, selected_models,
              selected_models, "")

UploadFile(f) ==
    /\ uploaded_file # f
    /\ uploaded_file' = f
    /\ Rerun(f, search_term, selected_vegetation, map_zone_input, bps_name_search, fire_preset, fire_custom, limit)
    /\ UNCHANGED <<storeVars, hlVars, widgetVars>>

RemoveFile ==
    /\ uploaded_file.present
    /\ uploaded_file' = NoFile
    /\ Rerun(NoFile, search_term, selected_vegetation, map_zone_input, bps_name_search, fire_preset, fire_custom, limit)
    /\ UNCHANGED <<storeVars, hlVars, widgetVars>>

SetSearchTerm(t) ==
    /\ search_term # t
    /\ search_term' = t
    /\ Rerun(uploaded_file, t, selected_vegetation, map_zone_input, bps_name_search, fire_preset, fire_custom, limit)
    /\ UNCHANGED <<storeVars, hlVars, uploaded_file, selected_vegetation, map_zone_input, bps_name_search,
                   fire_preset, fire_custom, limit>>

SelectVegetation(v) ==
    /\ selected_vegetation # v
    /\ selected_vegetation' = v
    /\ Rerun(uploaded_file, search_term, v, map_zone_input, bps_name_search, fire_preset, fire_custom, limit)
    /\ UNCHANGED <<storeVars, hlVars, uploaded_file, search_term, map_zone_input, bps_name_search,
                   fire_preset, fire_custom, limit>>

SetMapZones(z) ==
    /\ map_zone_input # z
    /\ map_zone_input' = z
    /\ Rerun(uploaded_file, search_term, selected_vegetation, z, bps_name_search, fire_preset, fire_custom, limit)
    /\ UNCHANGED <<storeVars, hlVars, uploaded_file, search_term, selected_vegetation, bps_name_search,
                   fire_preset, fire_custom, limit>>

SetBpsName(n) ==
    /\ bps_name_search # n
    /\ bps_name_search' = n
    /\ Rerun(uploaded_file, search_term, selected_vegetation, map_zone_input, n, fire_preset, fire_custom, limit)
    /\ UNCHANGED <<storeVars, hlVars, uploaded_file, search_term, selected_vegetation, map_zone_input,
                   fire_preset, fire_custom, limit>>

\* the number inputs appear with value=min_val / value=max_val when "Custom Range" is picked
SelectFirePreset(sv, p) ==
    /\ sv \in DOMAIN fire_ranges
    /\ fire_preset[sv] # p
    /\ LET r == fire_ranges[sv]
           presets == [fire_preset EXCEPT ![sv] = p]
           customs == [fire_custom EXCEPT ![sv] = IF p = "Custom Range" THEN <<r.min, r.max>> ELSE NoCustom]
       IN /\ fire_preset' = presets
          /\ fire_custom' = customs
          /\ Rerun(uploaded_file, search_term, selected_vegetation, map_zone_input, bps_name_search,
                   presets, customs, limit)
    /\ UNCHANGED <<storeVars, hlVars, uploaded_file, search_term, selected_vegetation, map_zone_input,
                   bps_name_search, limit>>

\* number_input(min_value=min_val, max_value=max_val): i = 1 is the Min input, i = 2 the Max input
SetFireCustom(sv, i, v) ==
    /\ sv \in DOMAIN fire_ranges
    /\ fire_preset[sv] = "Custom Range"
    /\ v >= fire_ranges[sv].min
    /\ v <= fire_ranges[sv].max
    /\ fire_custom[sv][i] # v
    /\ LET customs == [fire_custom EXCEPT ![sv][i] = v]
       IN /\ fire_custom' = customs
          /\ Rerun(uploaded_file, search_term, selected_vegetation, map_zone_input, bps_name_search,
                   fire_preset, customs, limit)
    /\ UNCHANGED <<storeVars, hlVars, uploaded_file, search_term, selected_vegetation, map_zone_input,
                   bps_name_search, fire_preset, limit>>

SetLimit(l) ==
    /\ limit # l
    /\ l >= LimitMin
    /\ l <= LimitMax
    /\ limit' = l
    /\ Rerun(uploaded_file, search_term, selected_vegetation, map_zone_input, bps_name_search,
             fire_preset, fire_custom, l)
    /\ UNCHANGED <<storeVars, hlVars, uploaded_file, search_term, selected_vegetation, map_zone_input,
                   bps_name_search, fire_preset, fire_custom>>

\* a display-option checkbox, shown while a filter is applied
SetDisplayOption(k) ==
    /\ query_conditions # <<>>
    /\ RerunPage(uploaded_file, search_term, selected_vegetation, map_zone_input, bps_name_search,
                 fire_preset, fire_custom, limit, [display EXCEPT ![k] = ~display[k]], selected_models,
                 selected_models, "")
    /\ UNCHANGED <<storeVars, hlVars, uploaded_file, widgetVars>>

\* a run whose report deletes the species rows of the models it has reported on
ToggleSelect_Deleting(model_id) ==
    /\ model_id \in RowIds(RowsRendered(df))
    /\ RerunPage(uploaded_file, search_term, selected_vegetation, map_zone_input, bps_name_search,
                 fire_preset, fire_custom, limit, display, selected_models,
                 IF model_id \in selected_models THEN selected_models \ {model_id}
                 ELSE selected_models \cup {model_id}, "")
    /\ bps_indicators' = IF story' # <<>>
                         THEN {r \in bps_indicators : r.bps_model_id \notin selected_models'}
                         ELSE bps_indicators
    /\ UNCHANGED <<bps_models, ref_con_long, fire_frequency, scls_descriptions, documents, failing,
                   pk_index, tie_order, vegetation_types, fire_ranges, etlVars, hlVars, uploaded_file,
                   widgetVars>>

\* a click on the checkbox of a result row that the run takes up: it adds the model to the
\* selected models or removes it
ToggleSelect(model_id) ==
    /\ model_id \in RowIds(RowsRendered(df))
    /\ RerunPage(uploaded_file, search_term, selected_vegetation, map_zone_input, bps_name_search,
                 fire_preset, fire_custom, limit, display, selected_models,
                 IF model_id \in selected_models THEN selected_models \ {model_id}
                 ELSE selected_models \cup {model_id}, "")
    /\ UNCHANGED <<storeVars, hlVars, uploaded_file, widgetVars>>

\* "Clear CSV Upload", shown while the session has an allowlist: the button empties the
\* session's two lists, st.rerun(), and the page runs again with the uploader as it is
ClearCsvUpload ==
    /\ csv_model_ids # <<>>
    /\ RerunWith(CsvSession(uploaded_file, <<>>, <<>>, bps_models),
                 search_term, selected_vegetation, map_zone_input, bps_name_search,
                 fire_preset, fire_custom, limit, display, selected_models, selected_models,
                 "Clear CSV Upload")
    /\ UNCHANGED <<storeVars, hlVars, uploaded_file, widgetVars>>

\* "Clear All Filters": st.rerun(), and the page runs again with the widgets as they are
ClearAllFilters ==
    /\ RerunPage(uploaded_file, search_term, selected_vegetation, map_zone_input, bps_name_search,
                 fire_preset, fire_custom, limit, display, selected_models, selected_models,
                 "Clear All Filters")
    /\ UNCHANGED <<storeVars, hlVars, uploaded_file, widgetVars>>

\* what Streamlit does with the state of the checkboxes in the run after st.rerun(), which is
\* raised before the script reaches them: "dropped" with the interrupted run, or kept, and then
\* taken for a checkbox whose value= has changed either as a new widget ("by_value") or as the
\* widget of that key ("by_key")
WidgetOutcomes == {"dropped", "by_value", "by_key"}

\* st.checkbox(value=is_selected, key=f"select_{model_id}") of a row
Checked(model_id, is_selected, outcome) ==
    IF outcome = "dropped" \/ model_id \notin DOMAIN select_checkbox THEN model_id \in is_selected
    ELSE IF select_checkbox[model_id].value = (model_id \in is_selected) \/ outcome = "by_key"
    THEN select_checkbox[model_id].state
    ELSE model_id \in is_selected

\* the loop over the result rows: selected_models.add / selected_models.remove
CheckboxLoop(is_selected, rows, outcome) ==
    (is_selected \ RowIds(rows)) \cup {id \in RowIds(rows) : Checked(id, is_selected, outcome)}

\* a press on one of the selection buttons: the session's set is assigned, st.rerun(), and the
\* page runs again
PressSelection(button, assigned, outcome) ==
    /\ RerunPage(uploaded_file, search_term, selected_vegetation, map_zone_input, bps_name_search,
                 fire_preset, fire_custom, limit, display, assigned,
                 CheckboxLoop(assigned, RowsRendered(df), outcome), button)
    /\ UNCHANGED <<storeVars, hlVars, uploaded_file, widgetVars>>

\* "Select All"
SelectAll(outcome) ==
    /\ Len(df) > 0
    /\ PressSelection("Select All", RowIds(df), outcome)

\* "Deselect All"
DeselectAll(outcome) ==
    /\ Len(df) > 0
    /\ PressSelection("Deselect All", {}, outcome)

\* csv_found_in_results
CsvFoundInResults(csv_ids, rows) == SelectSeq(csv_ids, LAMBDA mid : mid \in RowIds(rows))

\* "Select All CSV Models"
SelectAllCsv(outcome) ==
    /\ Len(df) > 0
    /\ csv_model_ids # <<>>
    /\ CsvFoundInResults(csv_model_ids, df) # <<>>
    /\ Len(CsvFoundInResults(csv_model_ids, df)) # Cardinality(selected_models)
    /\ PressSelection("Select All CSV Models",
                      RowIds(df) \cap {csv_model_ids[i] : i \in 1..Len(csv_model_ids)}, outcome)

(***************************************************************************)
(* Specification of the search page                                        *)
(***************************************************************************)

HlIdle ==
    /\ h_text = NULL /\ h_species = <<>> /\ h_pc = "idle"
    /\ h_md = NULL /\ h_html = NULL /\ h_md2 = NULL /\ h_html2 = NULL
    /\ h_perm = <<>> /\ h_md_perm = NULL

\* the page before the user has touched a widget: no condition, no query
PageDefaults ==
    /\ uploaded_file = NoFile
    /\ csv_model_ids = <<>>
    /\ csv_not_found = <<>>
    /\ search_term = ""
    /\ selected_vegetation = "All"
    /\ map_zone_input = ""
    /\ bps_name_search = ""
    /\ fire_preset = [sv \in Severities |-> "No Filter"]
    /\ fire_custom = [sv \in Severities |-> NoCustom]
    /\ limit = LimitDefault
    /\ fire_filters = <<>>
    /\ query_conditions = <<>>
    /\ query_params = <<>>
    /\ df = <<>>
    /\ display = DisplayDefaults
    /\ selected_models = {}
    /\ select_checkbox = <<>>
    /\ pressed = ""
    /\ active_filters = <<>>
    /\ zip_file = <<>>
    /\ story = <<>>

\* the script has run; the page reads neither models nor modelers
EtlIdle ==
    /\ modelers_csv = <<>> /\ num_unique_bps_models = 0
    /\ models_df = <<>> /\ modelers_df = <<>>
    /\ etl_pc = "done"

\* some model has reference conditions under two names
HasTies(refcon) ==
    \E a \in refcon, b \in refcon : a.bps_model_id = b.bps_model_id /\ a.bps_name # b.bps_name

Init ==
    /\ \E st \in Stores :
          /\ bps_models = st.bps_models
          /\ ref_con_long = st.ref_con_long
          /\ fire_frequency = st.fire_frequency
          /\ bps_indicators = st.bps_indicators
          /\ scls_descriptions = st.scls_descriptions
          /\ pk_index = SortedStrings({m.bps_model_id : m \in st.bps_models})
          /\ tie_order \in (IF HasTies(st.ref_con_long) THEN {"asc", "desc"} ELSE {"asc"})
          /\ vegetation_types = get_vegetation_types(st.bps_models)
          /\ fire_ranges = get_fire_frequency_ranges(st.fire_frequency)
    /\ documents = CoreDocuments
    /\ failing = {}
    /\ EtlIdle
    /\ PageDefaults
    /\ HlIdle

VegetationOptions == {vegetation_types[i] : i \in 1..Len(vegetation_types)}

CustomValues(sv) == {fire_ranges[sv].min, fire_ranges[sv].max}

Next ==
    \/ \E f \in Files : UploadFile(f)
    \/ RemoveFile
    \/ \E t \in SearchTerms : SetSearchTerm(t)
    \/ \E v \in VegetationOptions : SelectVegetation(v)
    \/ \E z \in ZoneInputs : SetMapZones(z)
    \/ \E n \in NameInputs : SetBpsName(n)
    \/ \E sv \in DOMAIN fire_ranges, p \in PresetChoices : SelectFirePreset(sv, p)
    \/ \E l \in Limits : SetLimit(l)

Spec == Init /\ [][Next]_vars

(***************************************************************************)
(* Specification of the fire-frequency filters alone: every preset and the *)
(* custom range of every severity the store has rows for                   *)
(***************************************************************************)

NextFire ==
    \/ \E sv \in DOMAIN fire_ranges, p \in PresetNames : SelectFirePreset(sv, p)
    \/ \E sv \in DOMAIN fire_ranges, i \in 1..2 :
          \E v \in CustomValues(sv) : SetFireCustom(sv, i, v)

SpecFire == Init /\ [][NextFire]_vars

(***************************************************************************)
(* Specification of the bulk downloads: searches that change the result    *)
(* rows, and the checkboxes of the rows                                    *)
(***************************************************************************)

\* the store of the core models alone with the rows fire of fire_frequency, and the documents
\* directory
StoreWithFire(fire) ==
    /\ bps_models = Store(CoreModels, 0).bps_models
    /\ ref_con_long = Store(CoreModels, 0).ref_con_long
    /\ fire_frequency = fire
    /\ bps_indicators = Store(CoreModels, 0).bps_indicators
    /\ scls_descriptions = Store(CoreModels, 0).scls_descriptions
    /\ pk_index = SortedStrings({m.bps_model_id : m \in bps_models})
    /\ tie_order = "asc"
    /\ vegetation_types = get_vegetation_types(bps_models)
    /\ fire_ranges = get_fire_frequency_ranges(fire_frequency)
    /\ documents = CoreDocuments
    /\ EtlIdle

CoreStore == StoreWithFire(Store(CoreModels, 0).fire_frequency)

InitExport ==
    /\ CoreStore
    /\ failing = {}
    /\ PageDefaults
    /\ HlIdle

\* a zone filter under which every result row has a model of its own
ExportZones == {"", "12"}

NextExport ==
    \/ \E t \in SearchTerms : SetSearchTerm(t)
    \/ \E v \in VegetationOptions : SelectVegetation(v)
    \/ \E z \in ExportZones : SetMapZones(z)
    \/ \E id \in RowIds(df) : ToggleSelect(id)

SpecExport == InitExport /\ [][NextExport]_vars

(***************************************************************************)
(* Specification of the selection: the checkboxes of the result rows and   *)
(* the selection buttons                                                   *)
(***************************************************************************)

NextSelect ==
    \/ \E f \in Files : UploadFile(f)
    \/ \E t \in SearchTerms : SetSearchTerm(t)
    \/ \E z \in ExportZones : SetMapZones(z)
    \/ \E id \in RowIds(df) : ToggleSelect(id)
    \/ \E outcome \in WidgetOutcomes : SelectAll(outcome)
    \/ \E outcome \in WidgetOutcomes : DeselectAll(outcome)
    \/ \E outcome \in WidgetOutcomes : SelectAllCsv(outcome)

SpecSelect == InitExport /\ [][NextSelect]_vars

(***************************************************************************)
(* Specification of the filters with blank and malformed inputs, and the   *)
(* report's account of them                                                *)
(***************************************************************************)

FilterTerms == {"", " ", "oak", "pine"}
FilterZones == {"", "x", "12", "7, x,12", "7,²"}
FilterSelectable == {"1010_1", "1040_1"}

NextFilters ==
    \/ \E f \in Files : UploadFile(f)
    \/ RemoveFile
    \/ \E t \in FilterTerms : SetSearchTerm(t)
    \/ \E z \in FilterZones : SetMapZones(z)
    \/ \E sv \in DOMAIN fire_ranges, p \in PresetChoices : SelectFirePreset(sv, p)
    \/ \E id \in FilterSelectable : ToggleSelect(id)

SpecFilters == InitExport /\ [][NextFilters]_vars

(***************************************************************************)
(* Specification of the report's sections: the display options, and the    *)
(* steps of the report that may raise                                      *)
(***************************************************************************)

\* the display options the user turns on and off
SectionKeys == {"bps_name", "veg_desc", "species", "succession", "fire_charts"}

\* zone filters under which every result row has a model of its own
SectionZones == {"", "12", "17"}

\* which steps raise: none, the three sub-queries, the chart
FailureCases == {{}, {"species", "succession", "fire"}, {"chart"}}

\* a store in which 1050_1 has no row in any of the tables behind the three sections
InitSections ==
    /\ StoreWithFire({f \in Store(CoreModels, 0).fire_frequency : f.bps_model_id # "1050_1"})
    /\ failing \in FailureCases
    /\ PageDefaults
    /\ HlIdle

NextSections ==
    \/ \E z \in SectionZones : SetMapZones(z)
    \/ \E id \in RowIds(df) : ToggleSelect(id)
    \/ \E k \in SectionKeys : SetDisplayOption(k)

SpecSections == InitSections /\ [][NextSections]_vars

(***************************************************************************)
(* Specification of the CSV upload: files with and without a recognised    *)
(* header                                                                  *)
(***************************************************************************)

\* no header is an alias: the first column holds the ids
PlainFile ==
    CsvFile(<<"id", "note">>, << <<"1040_1", "Model_ID">>, <<" 1040_1", NULL>>, <<"1050_1 ", "x">> >>)

\* two headers are aliases: the first of them is not the first alias of the list
TwoAliasFile ==
    CsvFile(<<"note", " Model_ID", "bps_model_id">>,
            << <<"x", "1020_1", "1060_1">>, <<"y", "1020_1", "1010_1">>, <<NULL, NULL, "1040_1">> >>)

\* the id column has blank and empty cells only
BlankFile == CsvFile(<<"model_id">>, << <<" ">>, <<NULL>> >>)

CsvFiles == {IdFile, PlainFile, TwoAliasFile, BlankFile, BadFile}

NextCsv ==
    \/ \E f \in CsvFiles : UploadFile(f)
    \/ RemoveFile
    \/ \E t \in SearchTerms : SetSearchTerm(t)
    \/ \E z \in ZoneInputs : SetMapZones(z)
    \/ \E n \in NameInputs : SetBpsName(n)

SpecCsv == InitExport /\ [][NextCsv]_vars

(***************************************************************************)
(* Specification of the sidebar's buttons and of files that replace one    *)
(* another in the uploader                                                 *)
(***************************************************************************)

\* a file with ids, a file without ids and a file that does not parse
SidebarFiles == {IdFile, BlankFile, BadFile}

NextSidebar ==
    \/ \E f \in SidebarFiles : UploadFile(f)
    \/ RemoveFile
    \/ \E t \in SearchTerms : SetSearchTerm(t)
    \/ \E v \in VegetationOptions : SelectVegetation(v)
    \/ \E z \in ExportZones : SetMapZones(z)
    \/ \E n \in NameInputs : SetBpsName(n)
    \/ \E p \in PresetChoices : SelectFirePreset("Replacement", p)
    \/ ClearCsvUpload
    \/ ClearAllFilters

SpecSidebar == InitExport /\ [][NextSidebar]_vars

(***************************************************************************)
(* Specification of the highlighter                                        *)
(***************************************************************************)

\* bound: how many chunks a passage is made of
MaxChunks == 2

Chunks ==
    { "Quercus garryana", "Q. garryana", "Quercusgarryana", "Quercus garryanas", "xQuercus garryana",
      "quercus  GARRYANA", "*Quercus garryana*", "<i>Quercus garryana</i>",
      "Festuca idahoensis subsp. roemeri", "F. idahoensis ssp. roemeri" }

RECURSIVE ChunkSeqs(_)
ChunkSeqs(n) ==
    IF n = 0 THEN {<<>>}
    ELSE LET shorter == ChunkSeqs(n - 1)
         IN shorter \cup {Append(q, c) : q \in {x \in shorter : Len(x) = n - 1}, c \in Chunks}

Texts == {Join(q, " ") : q \in ChunkSeqs(MaxChunks) \ {<<>>}}

\* species lists as get_species_list_for_model returns them: distinct names in ascending order
SpeciesLists ==
    { <<"Quercus garryana">>,
      <<"Quercus garryana", "quercus garryana">>,
      <<"Festuca idahoensis subsp. roemeri">>,
      <<"Festuca idahoensis", "Festuca idahoensis subsp. roemeri">>,
      <<"Festuca idahoensis subsp. roemeri", "Qu", "Quercus garryana">> }

\* the orders of a list
Orders(list) ==
    { [i \in 1..Len(list) |-> list[f[i]]] :
        f \in {g \in [1..Len(list) -> 1..Len(list)] : \A i, j \in 1..Len(list) : g[i] = g[j] => i = j} }

InitHL ==
    /\ bps_models = {} /\ ref_con_long = {} /\ fire_frequency = {} /\ pk_index = <<>> /\ tie_order = "asc"
    /\ bps_indicators = {} /\ scls_descriptions = {} /\ documents = {} /\ failing = {}
    /\ vegetation_types = get_vegetation_types({})
    /\ fire_ranges = get_fire_frequency_ranges({})
    /\ EtlIdle
    /\ PageDefaults
    /\ h_text \in Texts
    /\ h_species \in SpeciesLists
    /\ h_pc = "start"
    /\ h_md = NULL /\ h_html = NULL /\ h_md2 = NULL /\ h_html2 = NULL
    /\ h_perm = <<>> /\ h_md_perm = NULL

HlMarkdown ==
    /\ h_pc = "start"
    /\ h_md' = italicize_scientific_names_from_table(h_text, h_species)
    /\ h_pc' = "md"
    /\ UNCHANGED <<storeVars, csvVars, widgetVars, runVars, pageVars, h_text, h_species, h_html, h_md2, h_html2, h_perm, h_md_perm>>

HlHtml ==
    /\ h_pc = "md"
    /\ h_html' = italicize_scientific_names_from_table_html(h_text, h_species)
    /\ h_pc' = "html"
    /\ UNCHANGED <<storeVars, csvVars, widgetVars, runVars, pageVars, h_text, h_species, h_md, h_md2, h_html2, h_perm, h_md_perm>>

HlMarkdownAgain ==
    /\ h_pc = "html"
    /\ h_md2' = italicize_scientific_names_from_table(h_md, h_species)
    /\ h_pc' = "md2"
    /\ UNCHANGED <<storeVars, csvVars, widgetVars, runVars, pageVars, h_text, h_species, h_md, h_html, h_html2, h_perm, h_md_perm>>

HlHtmlAgain ==
    /\ h_pc = "md2"
    /\ h_html2' = italicize_scientific_names_from_table_html(h_html, h_species)
    /\ h_pc' = "html2"
    /\ UNCHANGED <<storeVars, csvVars, widgetVars, runVars, pageVars, h_text, h_species, h_md, h_html, h_md2, h_perm, h_md_perm>>

HlReordered(p) ==
    /\ h_pc = "html2"
    /\ p # h_species
    /\ h_perm' = p
    /\ h_md_perm' = italicize_scientific_names_from_table(h_text, p)
    /\ h_pc' = "perm"
    /\ UNCHANGED <<storeVars, csvVars, widgetVars, runVars, pageVars, h_text, h_species, h_md, h_html, h_md2, h_html2>>

NextHL ==
    \/ HlMarkdown
    \/ HlHtml
    \/ HlMarkdownAgain
    \/ HlHtmlAgain
    \/ \E p \in Orders(h_species) : HlReordered(p)

SpecHL == InitHL /\ [][NextHL]_vars

(***************************************************************************)
(* Specification of the report's Vegetation Description section for texts  *)
(* around the length at which the report splits them                       *)
(***************************************************************************)

\* bound: how many sentences a description is made of
MaxSentences == 3

Twice(s) == s \o s

Filler64 == Twice(Twice("open oak stands "))
Filler256 == Twice(Twice(Filler64))
Filler1024 == Twice(Twice(Filler256))

\* sentences of a description: plain, with the abbreviated name far from its start, with the
\* full name, and a short one with the abbreviated name
DescriptionSentences ==
    { Filler1024 \o "on dry slopes",
      Filler1024 \o Filler256 \o Filler256 \o Filler256 \o "with Q. garryana and " \o Filler256 \o "in the understory",
      "Quercus garryana dominates " \o Filler1024 \o "at low elevations",
      "Q. garryana is the major indicator" }

RECURSIVE SentenceSeqs(_)
SentenceSeqs(n) ==
    IF n = 0 THEN {<<>>}
    ELSE LET shorter == SentenceSeqs(n - 1)
         IN shorter \cup {Append(q, c) : q \in {x \in shorter : Len(x) = n - 1}, c \in DescriptionSentences}

Descriptions == {Join(q, ". ") \o "." : q \in SentenceSeqs(MaxSentences) \ {<<>>}}

InitLong ==
    /\ bps_models = {} /\ ref_con_long = {} /\ fire_frequency = {} /\ pk_index = <<>> /\ tie_order = "asc"
    /\ bps_indicators = {} /\ scls_descriptions = {} /\ documents = {} /\ failing = {}
    /\ vegetation_types = get_vegetation_types({})
    /\ fire_ranges = get_fire_frequency_ranges({})
    /\ EtlIdle
    /\ PageDefaults
    /\ h_text \in Descriptions
    /\ h_species = <<"Quercus garryana">>
    /\ h_pc = "start"
    /\ h_md = NULL /\ h_html = NULL /\ h_md2 = NULL /\ h_html2 = NULL
    /\ h_perm = <<>> /\ h_md_perm = NULL

\* the Vegetation Description section of a model's page: the highlighted text, split when long
VegetationDescriptionSection ==
    /\ h_pc = "start"
    /\ h_html' = italicize_scientific_names_from_table_html(h_text, h_species)
    /\ story' = TextSection(TRUE, h_text, "Vegetation Description", h_species)
    /\ h_pc' = "report"
    /\ UNCHANGED <<storeVars, csvVars, widgetVars, runVars, display, selected_models, select_checkbox,
                   pressed, active_filters, zip_file, h_text, h_species, h_md, h_md2, h_html2,
                   h_perm, h_md_perm>>

NextLong == VegetationDescriptionSection

SpecLong == InitLong /\ [][NextLong]_vars



(***************************************************************************)
(* The script that builds the store (src/create_sqlite_db.py): the split   *)
(* of tables/modelers.csv into the models and modelers tables              *)
(***************************************************************************)

\* a row of tables/modelers.csv
SourceRow(id, name, email, reviewers, reviewer_email) ==
    [bps_model_id |-> id, modelers |-> name, modeler_email |-> email,
     reviewers |-> reviewers, reviewer_email |-> reviewer_email]

\* Series.str.lower(): NaN stays NaN
StrLowerOrNaN(v) == IF v = NULL THEN NULL ELSE Lower(v)

\* dropna(axis=1, how='all') has dropped a column the clean-up indexes
ColumnMissing(rows) ==
    \/ \A i \in 1..Len(rows) : rows[i].modelers = NULL
    \/ \A i \in 1..Len(rows) : rows[i].modeler_email = NULL
    \/ \A i \in 1..Len(rows) : rows[i].reviewers = NULL
    \/ \A i \in 1..Len(rows) : rows[i].reviewer_email = NULL

\* "clean up modelers table": lower case, then "drop rows with all nulls"
CleanModelers(rows) ==
    SelectSeq([i \in 1..Len(rows) |->
                  SourceRow(rows[i].bps_model_id, StrLowerOrNaN(rows[i].modelers),
                            StrLowerOrNaN(rows[i].modeler_email), StrLowerOrNaN(rows[i].reviewers),
                            StrLowerOrNaN(rows[i].reviewer_email))],
              LAMBDA r : ~(r.modelers = NULL /\ r.modeler_email = NULL
                           /\ r.reviewers = NULL /\ r.reviewer_email = NULL))

\* Series.unique() of the bps_model_id column
UniqueModelIds(rows) == {rows[i].bps_model_id : i \in 1..Len(rows)}

\* the elements of rows at the indices of keep, in ascending order of index
AtIndices(rows, keep) ==
    [k \in 1..Cardinality(keep) |->
        rows[CHOOSE i \in keep : Cardinality({j \in keep : j < i}) = k - 1]]

\* drop_duplicates(subset=[column]): the first row of every value is kept
DropDuplicates(rows, column) ==
    AtIndices(rows, {i \in 1..Len(rows) : \A j \in 1..(i - 1) : rows[j][column] # rows[i][column]})

\* reset_index(drop=True); modeler_id = index + offset
WithModelerId(rows, offset) ==
    [i \in 1..Len(rows) |-> [modeler_id |-> i - 1 + offset] @@ rows[i]]

\* "modelers with no emails": dropna(subset=['modelers']), drop_duplicates(subset=['modelers'])
modelers_without_emails(rows) ==
    WithModelerId(DropDuplicates(SelectSeq(rows, LAMBDA r : r.modeler_email = NULL /\ r.modelers # NULL),
                                 "modelers"), 0)

\* "modelers with no info": dropna(subset=['reviewers', 'reviewer_email']) drops a row when
\* either of the two is missing
modelers_with_no_info(rows, offset) ==
    WithModelerId(SelectSeq(rows, LAMBDA r : /\ r.modelers = NULL /\ r.modeler_email = NULL
                                             /\ r.reviewers # NULL /\ r.reviewer_email # NULL),
                  offset)

\* "modelers who have entered their names differently but have the same email"
modelers_with_emails(rows, offset) ==
    WithModelerId(DropDuplicates(SelectSeq(rows, LAMBDA r : r.modeler_email # NULL), "modeler_email"),
                  offset)

\* a row of the models table: the columns left after drop(columns=['modeler_email', 'modelers'])
ModelsRow(r, modeler_id) ==
    [bps_model_id |-> r.bps_model_id, modeler_id |-> modeler_id,
     reviewers |-> r.reviewers, reviewer_email |-> r.reviewer_email]

\* DataFrame.merge(how='inner') on the columns of keys: a missing value matches a missing value
InnerMerge(left, right, keys) ==
    Flatten([i \in 1..Len(left) |->
                [k \in 1..Len(SelectSeq(right, LAMBDA m : \A c \in keys : m[c] = left[i][c])) |->
                    ModelsRow(left[i],
                              SelectSeq(right, LAMBDA m : \A c \in keys : m[c] = left[i][c])[k].modeler_id)]])

\* sort_values(by=['bps_model_id', 'modeler_id']); rows with equal keys are left in their order
SortModels(rows) ==
    [k \in 1..Len(rows) |->
        rows[OrderByRank(1..Len(rows),
                         [i \in 1..Len(rows) |->
                             Cardinality({j \in 1..Len(rows) :
                                 \/ StrLess(rows[j].bps_model_id, rows[i].bps_model_id)
                                 \/ /\ rows[j].bps_model_id = rows[i].bps_model_id
                                    /\ \/ rows[j].modeler_id < rows[i].modeler_id
                                       \/ rows[j].modeler_id = rows[i].modeler_id /\ j < i})])[k]]]

\* the models table: merged_by_email, merged_by_name and modelers_with_no_info, sorted
SplitModels(rows, without_emails, no_info, with_emails) ==
    SortModels(InnerMerge(rows, with_emails, {"modeler_email"})
               \o InnerMerge(rows, without_emails, {"modelers", "modeler_email"})
               \o [i \in 1..Len(no_info) |-> ModelsRow(no_info[i], no_info[i].modeler_id)])

\* the modelers table: name and email under the new key
SplitModelers(without_emails, no_info, with_emails) ==
    [i \in 1..(Len(without_emails) + Len(with_emails) + Len(no_info)) |->
        LET m == (without_emails \o with_emails \o no_info)[i]
        IN [modelers |-> m.modelers, modeler_email |-> m.modeler_email, modeler_id |-> m.modeler_id]]

\* the script down to the count of unique models: a missing column ends it with a KeyError
EtlClean ==
    /\ etl_pc = "read"
    /\ IF ColumnMissing(modelers_csv)
       THEN etl_pc' = "KeyError" /\ UNCHANGED <<modelers_csv, num_unique_bps_models>>
       ELSE /\ modelers_csv' = CleanModelers(modelers_csv)
            /\ num_unique_bps_models' = Cardinality(UniqueModelIds(modelers_csv'))
            /\ etl_pc' = "cleaned"
    /\ UNCHANGED <<models_df, modelers_df>>
    /\ UNCHANGED <<bps_models, ref_con_long, fire_frequency, bps_indicators, scls_descriptions,
                   documents, failing, pk_index, tie_order, vegetation_types, fire_ranges,
                   csvVars, widgetVars, runVars, pageVars, hlVars>>

\* "split modelers table to two tables"
EtlSplit ==
    /\ etl_pc = "cleaned"
    /\ models_df' =
          SplitModels(modelers_csv,
                      modelers_without_emails(modelers_csv),
                      modelers_with_no_info(modelers_csv, Len(modelers_without_emails(modelers_csv))),
                      modelers_with_emails(modelers_csv,
                          Len(modelers_without_emails(modelers_csv))
                          + Len(modelers_with_no_info(modelers_csv, 0))))
    /\ modelers_df' =
          SplitModelers(modelers_without_emails(modelers_csv),
                        modelers_with_no_info(modelers_csv, Len(modelers_without_emails(modelers_csv))),
                        modelers_with_emails(modelers_csv,
                            Len(modelers_without_emails(modelers_csv))
                            + Len(modelers_with_no_info(modelers_csv, 0))))
    /\ etl_pc' = "split"
    /\ UNCHANGED <<modelers_csv, num_unique_bps_models>>
    /\ UNCHANGED <<bps_models, ref_con_long, fire_frequency, bps_indicators, scls_descriptions,
                   documents, failing, pk_index, tie_order, vegetation_types, fire_ranges,
                   csvVars, widgetVars, runVars, pageVars, hlVars>>

\* assert (num_unique_bps_models == len(models['bps_model_id'].unique())); the database is
\* written after it
EtlAssert ==
    /\ etl_pc = "split"
    /\ etl_pc' = IF num_unique_bps_models = Cardinality(UniqueModelIds(models_df))
                 THEN "done" ELSE "AssertionError"
    /\ UNCHANGED <<modelers_csv, num_unique_bps_models, models_df, modelers_df>>
    /\ UNCHANGED <<bps_models, ref_con_long, fire_frequency, bps_indicators, scls_descriptions,
                   documents, failing, pk_index, tie_order, vegetation_types, fire_ranges,
                   csvVars, widgetVars, runVars, pageVars, hlVars>>

(***************************************************************************)
(* Specification of the script: every modelers table of up to MaxRows rows *)
(***************************************************************************)

MaxRows == 2

ModelerNames == {NULL, "Ann", "a. lee"}
ModelerEmails == {NULL, "A@x.org"}
\* reviewers and reviewer_email of a row
ReviewerPairs == {<<NULL, NULL>>, <<"Bob", NULL>>, <<"Bob", "b@x.org">>}

SourceRows ==
    { SourceRow(id, name, email, rv[1], rv[2]) :
        id \in {"1010_1", "1020_1"}, name \in ModelerNames, email \in ModelerEmails, rv \in ReviewerPairs }

SourceTables == UNION { [1..n -> SourceRows] : n \in 1..MaxRows }

InitEtl ==
    /\ bps_models = {} /\ ref_con_long = {} /\ fire_frequency = {} /\ pk_index = <<>> /\ tie_order = "asc"
    /\ bps_indicators = {} /\ scls_descriptions = {} /\ documents = {} /\ failing = {}
    /\ vegetation_types = get_vegetation_types({})
    /\ fire_ranges = get_fire_frequency_ranges({})
    /\ modelers_csv \in SourceTables
    /\ num_unique_bps_models = 0
    /\ models_df = <<>> /\ modelers_df = <<>>
    /\ etl_pc = "read"
    /\ PageDefaults
    /\ HlIdle

NextEtl == EtlClean \/ EtlSplit \/ EtlAssert

SpecEtl == InitEtl /\ [][NextEtl]_vars

(***************************************************************************)
(* Properties of the search page                                           *)
(***************************************************************************)

\* the comma-separated entries of a stored map_zones field, without the spaces around them
ZoneEntries(map_zones) ==
    IF map_zones = NULL THEN {}
    ELSE LET entries == SplitOn(map_zones, ",") IN {Strip(entries[i]) : i \in 1..Len(entries)}

HasZone(map_zones, zone) == IntToStr(zone) \in ZoneEntries(map_zones)

\* sub occurs in s, whatever the case of the letters
ContainsIgnoreCase(s, sub) == s # NULL /\ Contains(Lower(s), Lower(sub))

StartsWithIgnoreCase(s, prefix) ==
    s # NULL /\ Len(s) >= Len(prefix) /\ Lower(SubSeq(s, 1, Len(prefix))) = Lower(prefix)

HasFireRow(id, sv, range) ==
    \E ff \in fire_frequency :
        /\ ff.bps_model_id = id
        /\ ff.severity = sv
        /\ range[1] <= ff.return_interval
        /\ ff.return_interval <= range[2]

\* C1: with the zone list [z] as the only filter, a model is in the (untruncated) result
\* if and only if z is one of the comma-separated entries of its map_zones field
C1_MapZoneBoundary ==
    (/\ Len(query_conditions) = 1
     /\ query_conditions[1].kind = "zones"
     /\ query_conditions[1].n = 1
     /\ Len(df) < limit)
    => \A m \in bps_models :
          m.bps_model_id \in RowIds(df) <=> HasZone(m.map_zones, ZoneNumbers(map_zone_input)[1])

\* the row satisfies every filter that is active, each evaluated on the row alone
RowSatisfiesFilters(row) ==
    /\ csv_model_ids # <<>> =>
          \E i \in 1..Len(csv_model_ids) : csv_model_ids[i] = row.bps_model_id
    /\ (csv_model_ids = <<>> /\ Strip(search_term) # "") =>
          \E col \in {row.bps_model_id, row.vegetation_type, row.geographic_range,
                      row.biophysical_site_description, row.vegetation_description, row.bps_name} :
              ContainsIgnoreCase(col, Strip(search_term))
    /\ selected_vegetation # "All" => StartsWithIgnoreCase(row.vegetation_type, selected_vegetation)
    /\ ZoneNumbers(map_zone_input) # <<>> =>
          \E i \in 1..Len(ZoneNumbers(map_zone_input)) : HasZone(row.map_zones, ZoneNumbers(map_zone_input)[i])
    /\ Strip(bps_name_search) # "" => ContainsIgnoreCase(row.bps_name, Strip(bps_name_search))
    /\ \A sv \in DOMAIN fire_filters : HasFireRow(row.bps_model_id, sv, fire_filters[sv])

\* C2: every returned row satisfies each active filter predicate
C2_RowsSatisfyFilters ==
    query_conditions # <<>> => \A i \in 1..Len(df) : RowSatisfiesFilters(df[i])

\* C3: the result holds at most one row per bps_model_id
C3_OneRowPerModel ==
    \A i, j \in 1..Len(df) : i # j => df[i].bps_model_id # df[j].bps_model_id

\* the full set of rows matching the active filters
AllMatching == MatchingRows(query_conditions, query_params, bps_models, ref_con_long, fire_frequency)

\* C4: the result is the first `limit` rows, in ascending bps_model_id order, of the full set of
\* matching rows, and never longer than the limit
C4_FirstLimitRows ==
    query_conditions # <<>> =>
        /\ Len(df) <= limit
        /\ Len(df) = (IF Cardinality(AllMatching) < limit THEN Cardinality(AllMatching) ELSE limit)
        /\ \A i \in 1..Len(df) : df[i] \in AllMatching
        /\ \A i, j \in 1..Len(df) :
              i < j => df[i] # df[j] /\ ~StrLess(df[j].bps_model_id, df[i].bps_model_id)
        /\ \A row \in AllMatching :
              (\A i \in 1..Len(df) : df[i] # row) =>
                  \A i \in 1..Len(df) : ~StrLess(row.bps_model_id, df[i].bps_model_id)

\* a result cut at the limit: more rows match than the limit lets through
C4_Witness ==
    /\ query_conditions # <<>>
    /\ Len(df) = limit
    /\ Cardinality(AllMatching) > limit

\* C5: while the allowlist is non-empty, a run that differs from the one before only in the
\* search text leaves the query, its parameters and the result as they were
C5_AllowlistPrecedence ==
    [][(csv_model_ids # <<>> /\ csv_model_ids' = csv_model_ids /\ search_term' # search_term)
        => (/\ query_conditions' = query_conditions
            /\ query_params' = query_params
            /\ df' = df)]_vars

\* an allowlist run with a search text typed in, and a result with a row the text does not occur in
C5_Witness ==
    /\ csv_model_ids # <<>>
    /\ Strip(search_term) # ""
    /\ df # <<>>
    /\ \E i \in 1..Len(df) :
          ~\E col \in {df[i].bps_model_id, df[i].vegetation_type, df[i].geographic_range,
                        df[i].biophysical_site_description, df[i].vegetation_description, df[i].bps_name} :
               ContainsIgnoreCase(col, Strip(search_term))

\* C6: with fire filters active (and no other filter), a model is in the (untruncated) result
\* if and only if, for each filtered severity, it has a fire_frequency row of that severity
\* with min <= return_interval <= max
C6_FireIntervalFilter ==
    (/\ DOMAIN fire_filters # {}
     /\ Len(query_conditions) = 1
     /\ Len(df) < limit)
    => \A m \in bps_models :
          m.bps_model_id \in RowIds(df)
            <=> \A sv \in DOMAIN fire_filters : HasFireRow(m.bps_model_id, sv, fire_filters[sv])

\* Replacement [50,100]: a model with a row of 75, one with rows at both bounds, one with only
\* 120 and one without a Replacement row
C6_Witness ==
    /\ DOMAIN fire_filters = {"Replacement"}
    /\ fire_filters["Replacement"] = <<50, 100>>
    /\ {"1010_1", "1040_1", "1050_1"} \subseteq RowIds(df)
    /\ "1020_1" \notin RowIds(df)
    /\ "1060_1" \notin RowIds(df)



(***************************************************************************)
(* Properties of the filters with blank and malformed inputs                *)
(***************************************************************************)

\* the filter contributed a condition to the query
Contributed(kind) == \E i \in 1..Len(query_conditions) : query_conditions[i].kind = kind

\* the tokens of a zone input that are integers, without the spaces around them
IntegerTokens(input) ==
    LET toks == SplitOn(input, ",")
        stripped == [i \in 1..Len(toks) |-> Strip(toks[i])]
    IN SelectSeq(stripped, IsDigitStr)

\* the conditions of the run's query, each with the parameters bound to it
BoundConditions(conds, params) == Bind(conds, Placeholders(conds), params)

IsZoneCondition(c) == c.kind = "zones"

IsOtherCondition(c) == c.kind # "zones"

\* C17: of a zone input, the tokens that are no integers are dropped and every integer token is
\* applied; an input without an integer token adds no zone condition; the conditions of the
\* other filters are what they are without a zone input
C17_MalformedZonesDropped ==
    /\ SelectSeq(BoundConditions(query_conditions, query_params), IsZoneCondition)
          = IF IntegerTokens(map_zone_input) = <<>> THEN <<>>
            ELSE <<[kind |-> "zones", n |-> Len(IntegerTokens(map_zone_input)),
                    args |-> Flatten([i \in 1..Len(IntegerTokens(map_zone_input)) |->
                                        ZoneParams(ParseInt(IntegerTokens(map_zone_input)[i]))])]>>
    /\ SelectSeq(BoundConditions(query_conditions, query_params), IsOtherCondition)
          = BoundConditions(BuildQuery(csv_model_ids, search_term, selected_vegetation, "",
                                       bps_name_search, fire_filters, fire_ranges).conds,
                            BuildQuery(csv_model_ids, search_term, selected_vegetation, "",
                                       bps_name_search, fire_filters, fire_ranges).params)

\* how many allowlist ids, zone numbers or severities the condition of the kind covers, 0 when
\* the query has no condition of the kind
ShapeCount(kind) ==
    IF Contributed(kind)
    THEN query_conditions[CHOOSE i \in 1..Len(query_conditions) : query_conditions[i].kind = kind].n
    ELSE 0

\* the query built for fixed values that have the shape of the run's query: the same filters
\* active, as many allowlist ids, zone numbers and severity filters
ShapeQuery ==
    BuildQuery(Repeat("a", ShapeCount("csv")),
               IF Contributed("text") THEN "a" ELSE "",
               IF Contributed("veg") THEN "a" ELSE "All",
               Join(Repeat("0", ShapeCount("zones")), ","),
               IF Contributed("name") THEN "a" ELSE "",
               [sv \in (CHOOSE K \in SUBSET DOMAIN fire_ranges : Cardinality(K) = ShapeCount("fire"))
                   |-> <<0, 0>>],
               fire_ranges)

SqlText(conds) == [i \in 1..Len(conds) |-> conds[i].sql]

\* C18: the SQL text of the run's query is the text built for any other values of the same shape,
\* so no value the user supplied is part of it; the values are bound parameters, one for each
\* placeholder of the text
C18_SqlTextFromShapeOnly ==
    /\ SqlText(query_conditions) = SqlText(ShapeQuery.conds)
    /\ query_conditions # <<>> =>
          Len(query_params) = Sum(Placeholders(query_conditions)) + 1

\* a query with an allowlist, two zone numbers and a fire filter
C18_Witness ==
    /\ ShapeCount("csv") = 5
    /\ ShapeCount("zones") = 2
    /\ ShapeCount("fire") = 1
    /\ map_zone_input = "7, x,12"

\* the comparison that each placeholder of an SQL text is the right-hand side of, in the order
\* of the placeholders; "IN" for a placeholder of an IN (...) list
PlaceholderOps(sql) ==
    LET at == SelectSeq([i \in 1..Len(sql) |-> i], LAMBDA i : Ch(sql, i) = "?")
        op(i) == IF i > 5 /\ SubSeq(sql, i - 5, i - 1) = "LIKE " THEN "LIKE"
                 ELSE IF i > 3 /\ SubSeq(sql, i - 3, i - 1) = ">= " THEN ">="
                 ELSE IF i > 3 /\ SubSeq(sql, i - 3, i - 1) = "<= " THEN "<="
                 ELSE IF i > 2 /\ SubSeq(sql, i - 2, i - 1) = "= " THEN "="
                 ELSE "IN"
    IN [k \in 1..Len(at) |-> op(at[k])]

\* the comparisons of a condition of the kind that covers n ids, zone numbers or severities
IntendedOps(kind, n) ==
    CASE kind = "csv" -> Repeat("IN", n)
      [] kind = "text" -> Repeat("LIKE", 6)
      [] kind = "veg" -> <<"LIKE">>
      [] kind = "zones" -> Flatten(Repeat(<<"LIKE", "LIKE", "=", "LIKE">>, n))
      [] kind = "name" -> <<"LIKE">>
      [] kind = "fire" -> Flatten(Repeat(<<"=", ">=", "<=">>, n))

\* the values a condition of the kind is meant to receive, from the widgets and the session
IntendedArgs(kind) ==
    CASE kind = "csv" -> csv_model_ids
      [] kind = "text" -> Repeat("%" \o Strip(search_term) \o "%", 6)
      [] kind = "veg" -> <<selected_vegetation \o "%">>
      [] kind = "zones" ->
            Flatten([i \in 1..Len(IntegerTokens(map_zone_input)) |->
                       LET zone == IntToStr(ParseInt(IntegerTokens(map_zone_input)[i]))
                       IN <<"%, " \o zone \o ",%", zone \o ",%", zone, "%" \o zone \o "%">>])
      [] kind = "name" -> <<"%" \o Strip(bps_name_search) \o "%">>
      [] kind = "fire" ->
            Flatten([i \in 1..Len(FireKeys(fire_filters)) |->
                       <<FireKeys(fire_filters)[i], fire_filters[FireKeys(fire_filters)[i]][1],
                         fire_filters[FireKeys(fire_filters)[i]][2]>>])

\* C28: the query's parameters are as many as the placeholders of its text, the limit last, and
\* the parameters that fall to each condition by the position of its placeholders are the values
\* meant for it, each at the placeholder of its comparison
C28_PlaceholdersAligned ==
    query_conditions # <<>> =>
        /\ Len(query_params) = Sum(Placeholders(query_conditions)) + 1
        /\ query_params[Len(query_params)] = limit
        /\ \A k \in 1..Len(query_conditions) :
              /\ PlaceholderOps(query_conditions[k].sql)
                    = IntendedOps(query_conditions[k].kind, query_conditions[k].n)
              /\ BoundConditions(query_conditions, query_params)[k].args
                    = IntendedArgs(query_conditions[k].kind)

\* a query with an allowlist, a vegetation type, two zone numbers, a name and a fire filter
C28_Witness ==
    /\ \A kind \in {"csv", "veg", "zones", "name", "fire"} : Contributed(kind)
    /\ ShapeCount("zones") = 2
    /\ limit # LimitDefault

\* the header is one of the aliases, case and surrounding spaces aside
IsAlias(header) ==
    \E k \in 1..Len(possible_names) : Lower(Strip(header)) = Lower(possible_names[k])

\* the cells of the uploaded file's id column: the column of the first header that is an alias,
\* the first column when no header is one
IdCells(file) ==
    LET c == IF \E i \in 1..Len(file.columns) : IsAlias(file.columns[i])
             THEN CHOOSE i \in 1..Len(file.columns) :
                     IsAlias(file.columns[i]) /\ \A j \in 1..(i - 1) : ~IsAlias(file.columns[j])
             ELSE 1
    IN {file.rows[r][c] : r \in 1..Len(file.rows)}

\* the non-null cells as trimmed text, the empty text left out
TrimmedIds(file) == {Strip(v) : v \in IdCells(file) \ {NULL}} \ {""}

DownloadsShown == DownloadsReached(df) /\ selected_models # {}

\* the documents that selected models refer to and that exist in the documents directory
SelectedDocuments ==
    {m.document : m \in {x \in bps_models : x.bps_model_id \in selected_models /\ x.document # NULL}}
        \cap documents

\* C11: the archive holds exactly the documents that a selected model refers to and that exist
\* on disk, each of them once, whatever the other selected models lack
C11_ExportCompleteness ==
    DownloadsShown =>
        /\ DOMAIN zip_file = SelectedDocuments
        /\ \A n \in DOMAIN zip_file : zip_file[n] = 1

\* el is the header of a page of the model id: the id, or the id followed by " - " and a name
IsHeaderOf(el, id) ==
    /\ el.type = "Paragraph"
    /\ \/ el.text = id
       \/ Len(el.text) >= Len(id) + 3 /\ SubSeq(el.text, 1, Len(id) + 3) = id \o " - "

IsHeader(el) == \E m \in bps_models : IsHeaderOf(el, m.bps_model_id)

\* the models of the report's pages, in the order of the pages
PageIds ==
    LET headers == SelectSeq(story, IsHeader)
    IN [k \in 1..Len(headers) |->
          CHOOSE id \in {m.bps_model_id : m \in bps_models} : IsHeaderOf(headers[k], id)]

\* C12: the report has one page for every selected model, in ascending order of the model
\* identifiers, after any sequence of filter and selection changes
C12_ReportCompleteness ==
    DownloadsShown => PageIds = SortedStrings(selected_models)

\* the number the report gives as "Total Models"
TotalModels(n) == Paragraph("<b>Total Models:</b> " \o IntToStr(n))

\* C13: the report's "Total Models" is the number of model pages the report contains
C13_TotalModelsIsPageCount ==
    DownloadsShown => \E i \in 1..Len(story) : story[i] = TotalModels(Len(PageIds))

\* the report's line of active filters, "" when the report has none
ActiveFiltersLine ==
    IF \E i \in 1..Len(story) : Len(story[i].text) >= 23 /\ SubSeq(story[i].text, 1, 23) = "<b>Active Filters:</b> "
    THEN story[CHOOSE i \in 1..Len(story) :
                  Len(story[i].text) >= 23 /\ SubSeq(story[i].text, 1, 23) = "<b>Active Filters:</b> "].text
    ELSE ""

\* how the line names the filter behind each kind of condition
FilterLabels ==
    [csv |-> "CSV Upload: ", text |-> "Text: '", veg |-> "Vegetation: ", zones |-> "Map Zones: ",
     name |-> "BPS Name: '"]

\* the fire filter of the severity contributed a condition to the query
FireContributed(sv) == Contributed("fire") /\ sv \in DOMAIN fire_filters /\ sv \in DOMAIN fire_ranges

\* C14: the report's "Active Filters" names every filter that contributed a condition to the
\* query (each fire filter by its severity) and no filter that contributed none
C14_ActiveFiltersFaithful ==
    DownloadsShown =>
        /\ \A kind \in DOMAIN FilterLabels :
              Contributed(kind) <=> Contains(ActiveFiltersLine, FilterLabels[kind])
        /\ \A sv \in Severities : FireContributed(sv) <=> Contains(ActiveFiltersLine, sv)

\* the positions of the story that make up the page of the model id
PageOf(id) ==
    LET start == CHOOSE i \in 1..Len(story) :
                    IsHeaderOf(story[i], id) /\ \A j \in 1..(i - 1) : ~IsHeaderOf(story[j], id)
    IN {i \in start..Len(story) : \A j \in start..(i - 1) : story[j].type # "PageBreak"}

\* the field of a result row that each display option stands for
FieldOf(row) ==
    [model_id |-> row.bps_model_id, bps_name |-> row.bps_name,
     veg_desc |-> row.vegetation_description, geo_range |-> row.geographic_range,
     biophysical_site |-> row.biophysical_site_description, scale_desc |-> row.scale_description,
     issues |-> row.issues_or_problems, uncharacteristic |-> row.native_uncharacteristic_conditions]

\* the heading of each section the report builds from the other tables
SectionHeading ==
    [species |-> "<b>BpS Dominant and Indicator Species:</b>",
     succession |-> "<b>Succession Class Descriptions:</b>",
     fire_charts |-> "<b>Fire Regime Data:</b>"]

\* the text occurs on the page
OnPage(id, text) == \E i \in PageOf(id) : Contains(story[i].text, text)

\* C15: a model's page shows a field or a section exactly when its display option was on in the
\* run that built the report: with the option off, the field's content (the model id and the BPS
\* name included) is nowhere on the page
C15_SectionsFollowToggles ==
    DownloadsShown =>
        \A k \in 1..Len(PageIds) :
            /\ \A o \in DOMAIN FieldOf(FirstRow(df, PageIds[k])) :
                  FieldOf(FirstRow(df, PageIds[k]))[o] # NULL =>
                      (display[o] <=> OnPage(PageIds[k], FieldOf(FirstRow(df, PageIds[k]))[o]))
            /\ \A o \in DOMAIN SectionHeading :
                  display[o] <=> OnPage(PageIds[k], SectionHeading[o])

\* the page has a table whose heading row starts with the cell
HasTable(id, cell) ==
    \E i \in PageOf(id) : story[i].type = "Table" /\ story[i].rows[1][1] = cell

\* the page has the note, and not the content, of a section
NoteOnly(id, note, cell) == OnPage(id, note) /\ ~HasTable(id, cell)

\* the species section of a page: a note when the query raises or returns no row, else the table
SpeciesIsolated(id) ==
    IF "species" \in failing THEN NoteOnly(id, "<i>Error retrieving species data: ", "Symbol")
    ELSE IF \A r \in bps_indicators : r.bps_model_id # id
    THEN NoteOnly(id, "<i>No species indicator data available for this model.</i>", "Symbol")
    ELSE HasTable(id, "Symbol")

\* the succession section of a page
SuccessionIsolated(id) ==
    IF "succession" \in failing
    THEN OnPage(id, "<i>Error retrieving succession class data: ") /\ ~OnPage(id, "(State Class: ")
    ELSE IF \A r \in scls_descriptions : r.bps_model_id # id
    THEN OnPage(id, "<i>No succession class descriptions available for this model.</i>")
         /\ ~OnPage(id, "(State Class: ")
    ELSE OnPage(id, "(State Class: ")

\* the fire section of a page: the table stays when only the chart raises
FireIsolated(id) ==
    IF "fire" \in failing THEN NoteOnly(id, "<i>Database error: ", "Severity")
    ELSE IF \A f \in fire_frequency : f.bps_model_id # id \/ f.severity = NULL
    THEN NoteOnly(id, "<i>No fire data found for model ", "Severity")
    ELSE /\ HasTable(id, "Severity")
         /\ IF "chart" \in failing
            THEN OnPage(id, "<i>Could not generate chart: ")
                 /\ \A i \in PageOf(id) : story[i].type # "Image"
            ELSE \E i \in PageOf(id) : story[i].type = "Image"

\* C16: when a sub-query of the report raises, a sub-table is empty or the chart cannot be drawn,
\* a note stands in for that section, the other sections of the page and the pages of the other
\* models are still produced, and the report is complete
C16_FailureIsolation ==
    DownloadsShown =>
        /\ PageIds = SortedStrings(selected_models \cap RowIds(df))
        /\ Cardinality({i \in 1..Len(story) : story[i].type = "PageBreak"}) = Len(PageIds)
        /\ \A k \in 1..Len(PageIds) :
              /\ \A o \in DOMAIN SectionHeading : display[o] => OnPage(PageIds[k], SectionHeading[o])
              /\ display["species"] => SpeciesIsolated(PageIds[k])
              /\ display["succession"] => SuccessionIsolated(PageIds[k])
              /\ display["fire_charts"] => FireIsolated(PageIds[k])

\* a report of two pages built while the three sub-queries raise, with the three sections on
C16_Witness ==
    /\ DownloadsShown
    /\ Len(PageIds) = 2
    /\ failing = {"species", "succession", "fire"}
    /\ display["species"] /\ display["succession"] /\ display["fire_charts"]
    /\ OnPage(PageIds[2], "<i>Error retrieving species data: ")

C24_ClearCsvUpload ==
    pressed = "Clear CSV Upload" =>
        /\ csv_model_ids = <<>> /\ csv_not_found = <<>>
        /\ \A i \in 1..Len(query_conditions) : query_conditions[i].kind # "csv"

\* C25: after the run that follows a press on "Clear All Filters" every filter widget is at its
\* default, no fire filter is set and the query has no condition from a filter widget
C25_ClearAllFilters ==
    pressed = "Clear All Filters" =>
        /\ search_term = "" /\ selected_vegetation = "All" /\ map_zone_input = ""
        /\ bps_name_search = ""
        /\ \A sv \in DOMAIN fire_preset : fire_preset[sv] = "No Filter"
        /\ fire_filters = <<>>
        /\ \A i \in 1..Len(query_conditions) : query_conditions[i].kind = "csv"

\* C26: after every run the session's allowlist is the list of ids of the file the uploader
\* holds, empty without a file, and the not-found list is part of the allowlist
C26_AllowlistFollowsFile ==
    /\ csv_model_ids = CsvModelIds(uploaded_file)
    /\ \A i \in 1..Len(csv_not_found) : \E j \in 1..Len(csv_model_ids) : csv_model_ids[j] = csv_not_found[i]

\* C27: every fire filter of the run, which the query takes as it is, has min <= max
C27_FireFilterNotEmpty ==
    \A sv \in DOMAIN fire_filters : fire_filters[sv][1] <= fire_filters[sv][2]

(***************************************************************************)
(* Properties of the highlighter                                           *)
(***************************************************************************)

\* C7: highlighting the highlighter's output again gives that output, in markdown and in HTML
C7_Idempotence ==
    /\ h_pc \in {"md2", "html2", "perm"} => h_md2 = h_md
    /\ h_pc \in {"html2", "perm"} => h_html2 = h_html

\* w occurs in text at position i, whatever the case of the letters
OccursAt(text, w, i) ==
    i + Len(w) - 1 <= Len(text) /\ EqualsIgnoreCase(SubSeq(text, i, i + Len(w) - 1), w)

\* every occurrence of w in text is part of a longer word
OnlyInsideWords(text, w) ==
    \A i \in 1..Len(text) : OccursAt(text, w, i) => (WordAt(text, i - 1) \/ WordAt(text, i + Len(w)))

\* no word of text starts with the character c
StartsNoWord(text, c) ==
    \A i \in 1..Len(text) : OccursAt(text, c, i) => WordAt(text, i - 1)

\* the names of the list the highlighter looks for: those of at least two words
Names(species_list) ==
    {Strip(species_list[k]) : k \in {j \in 1..Len(species_list) : Len(SplitWs(species_list[j])) >= 2}}

\* every name of the list is, wherever it occurs in text, part of a longer word: its species
\* epithet has letters right before or after it, or its genus is the tail of a word
OnlyAsSubstring(text, species_list) ==
    \A name \in Names(species_list) :
        \/ OnlyInsideWords(text, SplitWs(name)[2])
        \/ StartsNoWord(text, Ch(name, 1))

\* C8: with the list ["Quercus garryana"], "Quercusgarryana" comes back unmarked and
\* "Quercus garryana" and "Q. garryana" come back wrapped in the marker; a text in which the
\* names occur only inside longer words comes back unmarked
C8_WordBoundary ==
    h_pc \in {"html", "md2", "html2", "perm"} =>
        /\ h_species = <<"Quercus garryana">> =>
              /\ h_text = "Quercusgarryana" => (h_md = h_text /\ h_html = h_text)
              /\ h_text = "Quercus garryana" =>
                    (h_md = "*Quercus garryana*" /\ h_html = "<i>Quercus garryana</i>")
              /\ h_text = "Q. garryana" => (h_md = "*Q. garryana*" /\ h_html = "<i>Q. garryana</i>")
        /\ OnlyAsSubstring(h_text, h_species) => (h_md = h_text /\ h_html = h_text)

\* a highlighted text in which a name of the list occurs, but only inside longer words
C8_Witness ==
    /\ h_pc = "html"
    /\ h_species = <<"Quercus garryana">>
    /\ h_text = "Quercusgarryana Quercus garryanas"
    /\ OnlyAsSubstring(h_text, h_species)
    /\ h_md = h_text
    /\ h_html = h_text

\* the forms of a name the highlighter marks: the name itself, genus and species, and the
\* genus abbreviated to its first letter
Forms(name) ==
    LET parts == SplitWs(name)
    IN {Join(parts, " "), parts[1] \o " " \o parts[2], Ch(parts[1], 1) \o ". " \o parts[2]}

\* the n characters from position i of the markdown text have the marker on both sides, or lie
\* inside an emphasis span
InEmphasis(out, i, n) ==
    \/ (i > 1 /\ Ch(out, i - 1) = "*" /\ i + n <= Len(out) /\ Ch(out, i + n) = "*")
    \/ Cardinality({k \in 1..(i - 1) : Ch(out, k) = "*"}) % 2 = 1

\* the n characters from position i of the HTML text have the tags on both sides, or lie inside
\* an <i> element
InItalics(out, i, n) ==
    \/ (i > 3 /\ SubSeq(out, i - 3, i - 1) = "<i>" /\ i + n + 3 <= Len(out)
           /\ SubSeq(out, i + n, i + n + 3) = "</i>")
    \/ Cardinality({k \in 1..(i - 1) : SubSeq(out, k, k + 2) = "<i>"})
           > Cardinality({k \in 1..(i - 1) : SubSeq(out, k, k + 3) = "</i>"})

\* every whole-word occurrence of form in the output is wrapped in an emphasis marker
AllMarked(out, form) ==
    \A i \in 1..Len(out) :
        (OccursAt(out, form, i) /\ ~WordAt(out, i - 1) /\ ~WordAt(out, i + Len(form)))
            => (InEmphasis(out, i, Len(form)) \/ InItalics(out, i, Len(form)))

\* C9: in the output (markdown and HTML), every whole-word occurrence of a form of a listed
\* name is wrapped in the emphasis marker
C9_EveryOccurrenceMarked ==
    h_pc \in {"html", "md2", "html2", "perm"} =>
        \A name \in Names(h_species) : \A form \in Forms(name) :
            AllMarked(h_md, form) /\ AllMarked(h_html, form)

\* C10: the markdown output is the same for the species list in any other order
C10_OrderIndependence ==
    h_pc = "perm" => h_md_perm = h_md

\* tag stands in out at position i
TagAt(out, tag, i) == i + Len(tag) - 1 <= Len(out) /\ SubSeq(out, i, i + Len(tag) - 1) = tag

\* an <i> element of the HTML text opens inside another
NestedItalics(out) ==
    \E i \in 1..Len(out) :
        /\ TagAt(out, "<i>", i)
        /\ Cardinality({k \in 1..(i - 1) : TagAt(out, "<i>", k)})
               > Cardinality({k \in 1..(i - 1) : TagAt(out, "</i>", k)})

\* a markdown emphasis span opens where another has just opened, or closes where another has
\* just closed
NestedEmphasis(out) == Contains(out, "**")

\* C22: in the output for a text that has no emphasis of its own, no emphasis wrapper lies
\* inside another, in markdown and in HTML
C22_NoNestedWrappers ==
    (h_pc \in {"html", "md2", "html2", "perm"} /\ ~Contains(h_text, "*") /\ ~Contains(h_text, "<i>")) =>
        ~NestedEmphasis(h_md) /\ ~NestedItalics(h_html)


\* out without the occurrences of the marker
RECURSIVE WithoutMarker(_, _)
WithoutMarker(out, marker) ==
    IF ~Contains(out, marker) THEN out
    ELSE SubSeq(out, 1, FindFirst(out, marker) - 1)
         \o WithoutMarker(SubSeq(out, FindFirst(out, marker) + Len(marker), Len(out)), marker)

\* C29: for a text that has no emphasis of its own, the output without its markers is the text,
\* character for character, in markdown and in HTML
C29_OnlyMarkersAdded ==
    (h_pc \in {"html", "md2", "html2", "perm"} /\ ~Contains(h_text, "*") /\ ~Contains(h_text, "<i>")) =>
        /\ WithoutMarker(h_md, "*") = h_text
        /\ WithoutMarker(WithoutMarker(h_html, "<i>"), "</i>") = h_text


\* the sentences of a sub-paragraph: the loop appends ". " to each and the paragraph is stripped
ParagraphSentences(p) ==
    SubSeq(SplitOn(p.text \o " ", ". "), 1, Len(SplitOn(p.text \o " ", ". ")) - 1)

\* how many times the tag occurs in the text
CountTag(text, tag) == Cardinality({i \in 1..Len(text) : TagAt(text, tag, i)})

\* the sub-paragraphs of the section, after its heading
SubParagraphs == SubSeq(story, 2, Len(story))

\* C30: when the highlighted description is longer than the threshold, its sub-paragraphs hold,
\* in order, the sentences of the text, each once, and every sub-paragraph closes the <i> it opens
C30_LongTextSplit ==
    (h_pc = "report" /\ Len(h_html) > LongTextLen) =>
        /\ Flatten([k \in 1..Len(SubParagraphs) |-> ParagraphSentences(SubParagraphs[k])])
              = SplitOn(h_html, ". ")
        /\ \A k \in 1..Len(SubParagraphs) :
              CountTag(SubParagraphs[k].text, "<i>") = CountTag(SubParagraphs[k].text, "</i>")


(***************************************************************************)
(* Properties of the script that builds the store                          *)
(***************************************************************************)

\* C21: once the split is done, the models table has exactly the model ids of the cleaned source
\* table, and the script's assertion on their number does not fail
C21_ModelsPreserved ==
    /\ etl_pc \in {"split", "done", "AssertionError"} =>
          UniqueModelIds(models_df) = UniqueModelIds(modelers_csv)
    /\ etl_pc # "AssertionError"

=============================================================================
